---------------------------- MODULE Spec2Model ----------------------------
(***************************************************************************)
(* A model of pep8.py (craigds/pep8, 0.5.1dev): the error reporter with    *)
(* its select/ignore filter, the Checker state machine that drives the     *)
(* token stream, the logical line builder and the fix/rewrite engine.      *)
(*                                                                         *)
(* Text is modelled as a sequence of one-character strings, so that        *)
(* slicing, prefix tests and searches are computed as the code computes    *)
(* them.                                                                   *)
(***************************************************************************)
EXTENDS Integers, Sequences, FiniteSets, TLC

(***************************************************************************)
(* Bounds of the model.                                                    *)
(***************************************************************************)
\* the longest --select / --ignore list given on the command line
MaxFilters == 2
\* the number of report_error calls followed in the reporter specification
MaxCalls == 3
\* the number of lines of a file that is checked
MaxLines == 2
\* the number of lines of a file of the layout specification
MaxLayoutLines == 3

\* characters between the delimiters of a string literal
MaxInterior == 2

(***************************************************************************)
(* Text helpers (Python str operations).                                   *)
(***************************************************************************)
\* str.startswith
StartsWith(s, p) ==
    /\ Len(p) <= Len(s)
    /\ SubSeq(s, 1, Len(p)) = p

\* s[a:b] with 0-based Python indices, 0 <= a, b (clamped to the length)
Slice(s, a, b) ==
    LET hi == IF b > Len(s) THEN Len(s) ELSE b
    IN  IF a >= hi THEN << >> ELSE SubSeq(s, a + 1, hi)

\* s[a:]
SliceFrom(s, a) == Slice(s, a, Len(s))

\* str.endswith
EndsWith(s, p) ==
    /\ Len(p) <= Len(s)
    /\ SubSeq(s, Len(s) - Len(p) + 1, Len(s)) = p

\* str.rstrip(chars): the characters of S removed from the end
RECURSIVE RStripSet(_, _)
RStripSet(s, S) ==
    IF s # << >> /\ s[Len(s)] \in S
    THEN RStripSet(SubSeq(s, 1, Len(s) - 1), S)
    ELSE s

\* str.lstrip(chars)
RECURSIVE LStripSet(_, _)
LStripSet(s, S) ==
    IF s # << >> /\ s[1] \in S THEN LStripSet(Tail(s), S) ELSE s

\* str.find(sub, start): the 0-based index of the first occurrence at or
\* after start, -1 when there is none
RECURSIVE FindFrom(_, _, _)
FindFrom(s, sub, start) ==
    IF start + Len(sub) > Len(s) THEN -1
    ELSE IF SubSeq(s, start + 1, start + Len(sub)) = sub THEN start
    ELSE FindFrom(s, sub, start + 1)

Find(s, sub) == FindFrom(s, sub, 0)

\* str.count(ch) for a one-character ch
CountChar(s, ch) == Cardinality({ i \in 1..Len(s) : s[i] = ch })

\* str.replace(ch, new) for a one-character ch
RECURSIVE ReplaceChar(_, _, _)
ReplaceChar(s, ch, new) ==
    IF s = << >> THEN << >>
    ELSE (IF s[1] = ch THEN new ELSE << s[1] >>) \o ReplaceChar(Tail(s), ch, new)

\* ch * n
Times(ch, n) == [ i \in 1..n |-> ch ]

\* s * n for a string s
RECURSIVE Repeat(_, _)
Repeat(s, n) == IF n <= 0 THEN << >> ELSE s \o Repeat(s, n - 1)

\* ''.join(list)
RECURSIVE Concat(_)
Concat(l) == IF l = << >> THEN << >> ELSE l[1] \o Concat(Tail(l))

Max(a, b) == IF a >= b THEN a ELSE b
Min(a, b) == IF a <= b THEN a ELSE b

\* '%d' % n for n >= 0: the decimal digits of n
RECURSIVE Str(_)
Str(n) ==
    IF n < 10
    THEN << << "0", "1", "2", "3", "4", "5", "6", "7", "8", "9" >>[n + 1] >>
    ELSE Str(n \div 10) \o Str(n % 10)

\* str.split(','): the pieces between the commas, at least one piece
RECURSIVE SplitComma(_)
SplitComma(s) ==
    IF \A i \in 1..Len(s) : s[i] # ","
    THEN << s >>
    ELSE LET k == CHOOSE i \in 1..Len(s) :
                      s[i] = "," /\ \A j \in 1..(i - 1) : s[j] # ","
         IN  << SubSeq(s, 1, k - 1) >> \o SplitComma(SubSeq(s, k + 1, Len(s)))

\* ','.join(list): how a list of prefixes is typed on the command line
RECURSIVE JoinComma(_)
JoinComma(l) ==
    IF l = << >> THEN << >>
    ELSE IF Len(l) = 1 THEN l[1]
    ELSE l[1] \o << "," >> \o JoinComma(Tail(l))

(***************************************************************************)
(* Program constants.                                                      *)
(***************************************************************************)
DEFAULT_IGNORE == << "E", "2", "4" >>

TAB_SIZE == 4
MAX_LINE_LENGTH == 120

(***************************************************************************)
(* Characters.  Ch(s, i) is s[i] with a 0-based Python index, "" past the  *)
(* end.                                                                    *)
(***************************************************************************)
Ch(s, i) == IF i >= 0 /\ i < Len(s) THEN s[i + 1] ELSE ""

Digits == { "0", "1", "2", "3", "4", "5", "6", "7", "8", "9" }
Letters ==
    { "a", "b", "c", "d", "e", "f", "g", "h", "i", "j", "k", "l", "m",
      "n", "o", "p", "q", "r", "s", "t", "u", "v", "w", "x", "y", "z",
      "A", "B", "C", "D", "E", "F", "G", "H", "I", "J", "K", "L", "M",
      "N", "O", "P", "Q", "R", "S", "T", "U", "V", "W", "X", "Y", "Z", "_" }
Quotes == { "'", "\"" }
\* the back-quote character, written as a name
Backtick == "BACKTICK"
\* the vertical tab, "\x0b", written as a name
VTab == "VTAB"
Brackets == { "(", ")", "[", "]", "{", "}" }
\* str.strip() / rstrip() / \s whitespace
StripChars == { " ", "\t", "\n", "\r", "\f", VTab }

(***************************************************************************)
(* The token source: tokenize.generate_tokens of the Python 2 standard     *)
(* library.  A token is                                                    *)
(*   [type, text, srow, scol, erow, ecol]                                  *)
(* with 1-based rows and 0-based columns; its raw line token[4] is         *)
(* lines[srow].                                                            *)
(***************************************************************************)
Tok(type, text, srow, scol, erow, ecol) ==
    [ type |-> type, text |-> text, srow |-> srow, scol |-> scol,
      erow |-> erow, ecol |-> ecol ]

\* Whitespace = r'[ \f\t]*': the first index >= pos that holds no blank
RECURSIVE SkipWs(_, _)
SkipWs(line, pos) ==
    IF Ch(line, pos) \in { " ", "\t", "\f" } THEN SkipWs(line, pos + 1) ELSE pos

\* the end of a run of characters of class S that starts at pos
RECURSIVE RunEnd(_, _, _)
RunEnd(line, pos, S) ==
    IF Ch(line, pos) \in S THEN RunEnd(line, pos + 1, S) ELSE pos

\* the index of the line's "\n" at or after pos, the length when there is none
RECURSIVE LineEnd(_, _)
LineEnd(line, pos) ==
    IF pos >= Len(line) \/ Ch(line, pos) \in { "\n", "\r" } THEN pos
    ELSE LineEnd(line, pos + 1)

\* Operator, Bracket, Special: the length of the operator at pos, 0 if none
OpLen(line, pos) ==
    LET c == Ch(line, pos)
        d == Ch(line, pos + 1)
        e == Ch(line, pos + 2)
    IN  IF c \in { "*", ">", "<", "/" } /\ d = c
        THEN (IF e = "=" THEN 3 ELSE 2)
        ELSE IF (c = "<" /\ d = ">") \/ (c = "!" /\ d = "=") THEN 2
        ELSE IF c \in { "+", "-", "*", "/", "%", "&", "|", "^", "=", "<", ">" }
        THEN (IF d = "=" THEN 2 ELSE 1)
        ELSE IF c = "~" \/ c \in Brackets \/ c \in { ":", ";", ".", ",", Backtick, "@" }
        THEN 1
        ELSE 0

\* [uUbB]?[rR]? before a quote: the length of the prefix, -1 if no string
\* literal starts at pos
PrefixLen(line, pos) ==
    LET c1 == Ch(line, pos)
        c2 == Ch(line, pos + 1)
        c3 == Ch(line, pos + 2)
    IN  IF c1 \in Quotes THEN 0
        ELSE IF c1 \in { "u", "U", "b", "B", "r", "R" } /\ c2 \in Quotes THEN 1
        ELSE IF c1 \in { "u", "U", "b", "B" } /\ c2 \in { "r", "R" } /\ c3 \in Quotes
        THEN 2
        ELSE -1

\* the index of the closing quote q of a one-line string whose contents
\* start at pos, -1 when the line ends first
RECURSIVE FindQuote(_, _, _)
FindQuote(line, pos, q) ==
    IF pos >= Len(line) \/ Ch(line, pos) = "\n" THEN -1
    ELSE IF Ch(line, pos) = q THEN pos
    ELSE FindQuote(line, pos + 1, q)

\* the index of the first qqq at or after pos, -1 when the line has none
RECURSIVE FindTriple(_, _, _)
FindTriple(line, pos, q) ==
    IF pos + 2 >= Len(line) THEN -1
    ELSE IF Ch(line, pos) = q /\ Ch(line, pos + 1) = q /\ Ch(line, pos + 2) = q
    THEN pos
    ELSE FindTriple(line, pos + 1, q)

NoCont == [ open |-> FALSE, continued |-> FALSE ]

\* continued = 1: a backslash before the newline continues the statement
Continued == [ open |-> FALSE, continued |-> TRUE ]

\* the tokens of one line from pos on: [toks, parenlev, cont]; cont is the
\* triple-quoted string the line leaves open, or the continuation flag that
\* a backslash before the newline, which ends the line, sets
RECURSIVE ScanLine(_, _, _, _)
ScanLine(line, lnum, pos, parenlev) ==
    LET start == SkipWs(line, pos)
        c == Ch(line, start)
        plen == PrefixLen(line, start)
        q == Ch(line, start + plen)
        triple == plen >= 0 /\ Ch(line, start + plen + 1) = q
                            /\ Ch(line, start + plen + 2) = q
        close3 == FindTriple(line, start + plen + 3, q)
        close1 == FindQuote(line, start + plen + 1, q)
        Emit(type, stop, lev) ==
            LET R == ScanLine(line, lnum, stop, lev)
            IN  [R EXCEPT !.toks = << Tok(type, Slice(line, start, stop),
                                          lnum, start, lnum, stop) >> \o @]
    IN  IF start >= Len(line)
        THEN [ toks |-> << >>, parenlev |-> parenlev, cont |-> NoCont ]
        ELSE IF c \in Digits
        THEN Emit("NUMBER", RunEnd(line, start, Digits), parenlev)
        ELSE IF c \in { "\r", "\n" }
        THEN Emit(IF parenlev > 0 THEN "NL" ELSE "NEWLINE", start + 1, parenlev)
        ELSE IF c = "#"
        THEN Emit("COMMENT", LineEnd(line, start), parenlev)
        ELSE IF triple /\ close3 >= 0
        THEN Emit("STRING", close3 + 3, parenlev)
        ELSE IF triple
        THEN [ toks |-> << >>, parenlev |-> parenlev,
               cont |-> [ open |-> TRUE, continued |-> FALSE,
                          text |-> SliceFrom(line, start),
                          srow |-> lnum, scol |-> start, q |-> q ] ]
        ELSE IF plen >= 0 /\ close1 >= 0
        THEN Emit("STRING", close1 + 1, parenlev)
        ELSE IF c \in Letters
        THEN Emit("NAME", RunEnd(line, start, Letters \cup Digits), parenlev)
        ELSE IF c = "\\" /\ ( \/ Ch(line, start + 1) = "\n"
                             \/ /\ Ch(line, start + 1) = "\r"
                                /\ Ch(line, start + 2) = "\n" )
        THEN [ toks |-> << >>, parenlev |-> parenlev, cont |-> Continued ]
        ELSE IF OpLen(line, start) > 0
        THEN Emit("OP", start + OpLen(line, start),
                  IF c \in { "(", "[", "{" } THEN parenlev + 1
                  ELSE IF c \in { ")", "]", "}" } THEN parenlev - 1
                  ELSE parenlev)
        ELSE LET R == ScanLine(line, lnum, pos + 1, parenlev)
             IN  [R EXCEPT !.toks = << Tok("ERRORTOKEN", << Ch(line, pos) >>,
                                           lnum, pos, lnum, pos + 1) >> \o @]

\* the column of the first non-blank character of a statement's first line:
\* <<column, pos>>
RECURSIVE MeasureIndent(_, _, _)
MeasureIndent(line, pos, column) ==
    IF Ch(line, pos) = " " THEN MeasureIndent(line, pos + 1, column + 1)
    ELSE IF Ch(line, pos) = "\t"
    THEN MeasureIndent(line, pos + 1, ((column \div 8) + 1) * 8)
    ELSE IF Ch(line, pos) = "\f" THEN MeasureIndent(line, pos + 1, 0)
    ELSE << column, pos >>

\* indents[:-1] repeated while column < indents[-1]
RECURSIVE PopIndents(_, _)
PopIndents(indents, column) ==
    IF column < indents[Len(indents)]
    THEN PopIndents(SubSeq(indents, 1, Len(indents) - 1), column)
    ELSE indents

\* n DEDENT tokens at (row, col)
Dedents(n, row, col) == [ i \in 1..n |-> Tok("DEDENT", << >>, row, col, row, col) ]

\* The token stream of a file: [toks, err, errRow].  The tokens are yielded
\* in order; err is "" or the exception raised after the last token, by the
\* readline call number errRow.  lnum is the number of the line to read.
RECURSIVE Generate(_, _, _, _, _)
Generate(lines, lnum, indents, parenlev, cont) ==
    LET line == lines[lnum]
        AtEof(row) ==
            [ toks |-> Dedents(Len(indents) - 1, row, 0)
                         \o << Tok("ENDMARKER", << >>, row, 0, row, 0) >>,
              err |-> "", errRow |-> 0 ]
        Then(toks, nindents, lev, ncont) ==
            LET R == Generate(lines, lnum + 1, nindents, lev, ncont)
            IN  [R EXCEPT !.toks = toks \o @]
        Scanned(before, nindents, pos) ==
            LET After(S) == Then(before \o S.toks, nindents, S.parenlev, S.cont)
            IN  After(ScanLine(line, lnum, pos, parenlev))
    IN  IF lnum > Len(lines)
        THEN IF cont.open \/ parenlev # 0 \/ cont.continued
             THEN [ toks |-> << >>, err |-> "TokenError", errRow |-> lnum ]
             ELSE AtEof(lnum)
        ELSE IF cont.open
        THEN LET e == FindTriple(line, 0, cont.q)
             IN  IF e >= 0
                 THEN Scanned(<< Tok("STRING", cont.text \o Slice(line, 0, e + 3),
                                     cont.srow, cont.scol, lnum, e + 3) >>,
                              indents, e + 3)
                 ELSE Then(<< >>, indents, parenlev,
                           [cont EXCEPT !.text = @ \o line])
        ELSE IF parenlev = 0 /\ ~cont.continued
        THEN LET m == MeasureIndent(line, 0, 0)
                 column == m[1]
                 pos == m[2]
                 cend == LineEnd(line, pos)
             IN  IF pos = Len(line) THEN AtEof(lnum)
                 ELSE IF Ch(line, pos) = "#"
                 THEN Then(<< Tok("COMMENT", Slice(line, pos, cend),
                                  lnum, pos, lnum, cend),
                              Tok("NL", SliceFrom(line, cend),
                                  lnum, cend, lnum, Len(line)) >>,
                           indents, parenlev, cont)
                 ELSE IF Ch(line, pos) \in { "\r", "\n" }
                 THEN Then(<< Tok("NL", SliceFrom(line, pos),
                                  lnum, pos, lnum, Len(line)) >>,
                           indents, parenlev, cont)
                 ELSE IF column > indents[Len(indents)]
                 THEN Scanned(<< Tok("INDENT", Slice(line, 0, pos),
                                     lnum, 0, lnum, pos) >>,
                              Append(indents, column), pos)
                 ELSE IF column < indents[Len(indents)]
                         /\ \A i \in 1..Len(indents) : indents[i] # column
                 THEN [ toks |-> << >>, err |-> "IndentationError",
                        errRow |-> lnum ]
                 ELSE LET popped == PopIndents(indents, column)
                      IN  Scanned(Dedents(Len(indents) - Len(popped), lnum, pos),
                                  popped, pos)
        ELSE Scanned(<< >>, indents, 0)

\* the number of DEDENT tokens before the ENDMARKER that ends toks
RECURSIVE TrailingDedents(_, _)
TrailingDedents(toks, k) ==
    IF k >= 1 /\ toks[k].type = "DEDENT" THEN 1 + TrailingDedents(toks, k - 1)
    ELSE 0

\* generate_tokens(readline) over the lines of a file.  A tokenize that
\* emits the implicit NEWLINE (bpo-33899) yields NEWLINE '' before the
\* closing DEDENT and ENDMARKER tokens when the last line read does not
\* end with a newline; an older tokenize yields none.
GenerateTokens(lines, implicit_newline) ==
    LET last_line == lines[Len(lines)]
        Insert(G, n, keep, row) ==
            [G EXCEPT !.toks =
                 SubSeq(G.toks, 1, keep)
                   \o << Tok("NEWLINE", << >>, row, Len(last_line),
                              row, Len(last_line) + 1) >>
                   \o SubSeq(G.toks, keep + 1, n)]
        Yield(G) ==
            IF /\ implicit_newline
               /\ G.err = ""
               /\ lines # << >>
               /\ last_line[Len(last_line)] \notin { "\r", "\n" }
            THEN Insert(G, Len(G.toks),
                        Len(G.toks) - 1 - TrailingDedents(G.toks, Len(G.toks) - 1),
                        G.toks[Len(G.toks)].srow - 1)
            ELSE G
    IN  Yield(Generate(lines, 1, << 0 >>, 0, NoCont))

(***************************************************************************)
(* Check results: None, or (offset, text) where the text is the code, a    *)
(* space and the message.  The offset is an integer (Found) or a tuple     *)
(* (row, col) taken from a token (FoundAt).                                *)
(***************************************************************************)
None == [ none |-> TRUE ]

Found(offset, code, msg) ==
    [ none |-> FALSE, tuple |-> FALSE, offset |-> offset,
      text |-> code \o << " " >> \o msg ]

FoundAt(position, code, msg) ==
    [ none |-> FALSE, tuple |-> TRUE, offset |-> position,
      text |-> code \o << " " >> \o msg ]

\* str.strip() / str.rstrip() / str.lstrip() without argument
RStrip(s) == RStripSet(s, StripChars)
LStrip(s) == LStripSet(s, StripChars)
Strip(s) == LStrip(RStrip(s))

\* INDENT_REGEX.match(line).group(1)
IndentOf(line) == Slice(line, 0, RunEnd(line, 0, { " ", "\t" }))

(***************************************************************************)
(* The checks for physical lines.                                          *)
(***************************************************************************)
\* the first offset of the indent whose character is not indent_char
RECURSIVE FirstOther(_, _, _)
FirstOther(indent, offset, indent_char) ==
    IF offset >= Len(indent) THEN -1
    ELSE IF Ch(indent, offset) # indent_char THEN offset
    ELSE FirstOther(indent, offset + 1, indent_char)

tabs_or_spaces_check(physical_line, indent_char) ==
    LET offset == FirstOther(IndentOf(physical_line), 0, indent_char)
    IN  IF offset >= 0
        THEN Found(offset, << "E", "1", "0", "1" >>,
                   << "indentation contains mixed spaces and tabs" >>)
        ELSE None

tabs_or_spaces_fix(physical_line) ==
    LET indent == IndentOf(physical_line)
    IN  ReplaceChar(indent, "\t", Times(" ", 4))
            \o SliceFrom(physical_line, Len(indent))

tabs_obsolete_check(physical_line) ==
    LET indent == IndentOf(physical_line)
    IN  IF CountChar(indent, "\t") > 0
        THEN Found(Find(indent, << "\t" >>), << "W", "1", "9", "1" >>,
                   << "indentation contains tabs" >>)
        ELSE None

tabs_obsolete_fix(physical_line) == ReplaceChar(physical_line, "\t", Times(" ", 4))

trailing_whitespace_check(physical_line0) ==
    LET physical_line ==
            RStripSet(RStripSet(RStripSet(physical_line0, { "\n" }), { "\r" }),
                      { "\f" })
        stripped == RStrip(physical_line)
    IN  IF physical_line # stripped
        THEN IF stripped # << >>
             THEN Found(Len(stripped), << "W", "2", "9", "1" >>,
                        << "trailing whitespace" >>)
             ELSE Found(0, << "W", "2", "9", "3" >>,
                        << "blank line contains whitespace" >>)
        ELSE None

\* re.sub(r'[ \n\r\t]+$', "\n", physical_line)
trailing_whitespace_fix(physical_line) ==
    LET kept == RStripSet(physical_line, { " ", "\n", "\r", "\t" })
    IN  IF kept = physical_line THEN physical_line ELSE kept \o << "\n" >>

trailing_blank_lines_check(physical_line, lines, line_number) ==
    IF Strip(physical_line) = << >> /\ line_number = Len(lines)
    THEN Found(0, << "W", "3", "9", "1" >>, << "blank line at end of file" >>)
    ELSE None

trailing_blank_lines_fix(physical_line) == << >>

missing_newline_check(physical_line) ==
    IF RStrip(physical_line) = physical_line
    THEN Found(Len(physical_line), << "W", "2", "9", "2" >>,
               << "no newline at end of file" >>)
    ELSE None

missing_newline_fix(physical_line) == physical_line \o << "\n" >>

maximum_line_length_check(physical_line) ==
    LET length == Len(RStrip(physical_line))
    IN  IF length > MAX_LINE_LENGTH
        THEN Found(MAX_LINE_LENGTH, << "E", "5", "0", "1" >>,
                   << "line too long (" >> \o Str(length) \o << " characters)" >>)
        ELSE None

\* Check.all_checks for physical lines, sorted by class name (checks.sort())
PhysicalNames ==
    << "maximum_line_length", "missing_newline", "tabs_obsolete",
       "tabs_or_spaces", "trailing_blank_lines", "trailing_whitespace" >>

(***************************************************************************)
(* The checks for logical lines.                                           *)
(***************************************************************************)
\* x in 'abc' for strings: x occurs in s as a substring
IsSubstr(x, s) == Find(s, x) >= 0

\* s[i] with a Python index, negative from the end
PyIndex(s, i) == IF i < 0 THEN s[Len(s) + i + 1] ELSE s[i + 1]

\* DOCSTRING_REGEX.match(s): u?r?["']
DocstringMatch(s) ==
    LET a == IF Ch(s, 0) = "u" THEN 1 ELSE 0
        b == IF Ch(s, a) = "r" THEN a + 1 ELSE a
    IN  Ch(s, b) \in Quotes

DefLike(logical_line) ==
    \/ StartsWith(logical_line, << "d", "e", "f", " " >>)
    \/ StartsWith(logical_line, << "c", "l", "a", "s", "s", " " >>)
    \/ StartsWith(logical_line, << "@" >>)

blank_lines_check(logical_line, blank_lines, indent_level, line_number, previous_logical, previous_indent_level, blank_lines_before_comment) ==
    LET max_blank_lines == Max(blank_lines, blank_lines_before_comment)
    IN  IF line_number = 1 THEN None
        ELSE IF StartsWith(previous_logical, << "@" >>)
        THEN IF max_blank_lines # 0
             THEN Found(0, << "E", "3", "0", "4" >>,
                        << "blank lines found after function decorator" >>)
             ELSE None
        ELSE IF max_blank_lines > 2 \/ (indent_level # 0 /\ max_blank_lines = 2)
        THEN Found(0, << "E", "3", "0", "3" >>,
                   << "too many blank lines (" >> \o Str(max_blank_lines) \o << ")" >>)
        ELSE IF DefLike(logical_line)
        THEN IF indent_level # 0
             THEN IF ~(max_blank_lines # 0
                       \/ previous_indent_level < indent_level
                       \/ DocstringMatch(previous_logical))
                  THEN Found(0, << "E", "3", "0", "1" >>,
                             << "expected 1 blank line, found 0" >>)
                  ELSE None
             ELSE IF max_blank_lines # 2
             THEN Found(0, << "E", "3", "0", "2" >>,
                        << "expected 2 blank lines, found " >> \o Str(max_blank_lines))
             ELSE None
        ELSE None

BlankLinesKept(logical_line, blank_lines, indent_level, line_number, previous_logical, previous_indent_level, blank_lines_before_comment) == blank_lines

\* blank_lines.fix: the new value of checker.blank_lines
blank_lines_fix(logical_line, blank_lines, indent_level, line_number, previous_logical, previous_indent_level, blank_lines_before_comment) ==
    LET expected_blank_lines == IF indent_level # 0 THEN 1 ELSE 2
        max_blank_lines == Max(blank_lines, blank_lines_before_comment)
    IN  IF line_number = 1 THEN blank_lines
        ELSE IF StartsWith(previous_logical, << "@" >>)
        THEN (IF max_blank_lines # 0 THEN 0 ELSE blank_lines)
        ELSE IF max_blank_lines > expected_blank_lines
        THEN Min(max_blank_lines, expected_blank_lines)
        ELSE IF DefLike(logical_line)
        THEN IF indent_level # 0
             THEN IF ~(max_blank_lines # 0
                       \/ previous_indent_level < indent_level
                       \/ DocstringMatch(previous_logical))
                  THEN 1
                  ELSE blank_lines
             ELSE IF max_blank_lines # 2 THEN 2 ELSE blank_lines
        ELSE blank_lines

\* EXTRANEOUS_WHITESPACE_REGEX = r'[\[\(\{] | [\]\}\)\,\;\:]+': the end of
\* the match that starts at pos, -1 when none starts there
ExtraneousMatchEnd(line, pos) ==
    IF Ch(line, pos) \in { "[", "(", "{" } /\ Ch(line, pos + 1) = " "
    THEN pos + 2
    ELSE IF Ch(line, pos) = " "
            /\ Ch(line, pos + 1) \in { "]", "}", ")", ",", ";", ":" }
    THEN RunEnd(line, pos + 1, { "]", "}", ")", ",", ";", ":" })
    ELSE -1

\* the for loop over EXTRANEOUS_WHITESPACE_REGEX.finditer(line) from pos on
RECURSIVE ExtraneousScan(_, _)
ExtraneousScan(line, pos) ==
    LET stop == ExtraneousMatchEnd(line, pos)
        text == Slice(line, pos, stop)
        char == Strip(text)
    IN  IF pos >= Len(line) THEN None
        ELSE IF stop < 0 THEN ExtraneousScan(line, pos + 1)
        ELSE IF text = char \o << " " >> /\ IsSubstr(char, << "(", "[", "{" >>)
        THEN Found(pos + 1, << "E", "2", "0", "1" >>,
                   << "whitespace after '" >> \o char \o << "'" >>)
        ELSE IF text = << " " >> \o char /\ PyIndex(line, pos - 1) # ","
                /\ IsSubstr(char, << "}", "]", ")" >>)
        THEN Found(pos, << "E", "2", "0", "2" >>,
                   << "whitespace before '" >> \o char \o << "'" >>)
        ELSE IF text = << " " >> \o char /\ PyIndex(line, pos - 1) # ","
                /\ IsSubstr(char, << ",", ";", ":" >>)
        THEN Found(pos, << "E", "2", "0", "3" >>,
                   << "whitespace before '" >> \o char \o << "'" >>)
        ELSE ExtraneousScan(line, stop)

extraneous_whitespace_check(logical_line) == ExtraneousScan(logical_line, 0)

\* EXTRANEOUS_WHITESPACE_REGEX.sub(lambda match: match.group().strip(), line)
RECURSIVE ExtraneousSub(_, _)
ExtraneousSub(line, pos) ==
    LET stop == ExtraneousMatchEnd(line, pos)
    IN  IF pos >= Len(line) THEN << >>
        ELSE IF stop < 0 THEN << Ch(line, pos) >> \o ExtraneousSub(line, pos + 1)
        ELSE Strip(Slice(line, pos, stop)) \o ExtraneousSub(line, stop)

extraneous_whitespace_fix(logical_line) == ExtraneousSub(logical_line, 0)

\* the test of missing_whitespace at one index
MissingWhitespaceAt(line, index) ==
    LET char == Ch(line, index)
        before == Slice(line, 0, index)
    IN  /\ char \in { ",", ";", ":" }
        /\ Ch(line, index + 1) \notin { " ", "\t" }
        /\ ~(char = ":" /\ CountChar(before, "[") > CountChar(before, "]"))
        /\ ~(char = "," /\ Ch(line, index + 1) \in { ")", "]" })

RECURSIVE MissingWhitespaceScan(_, _)
MissingWhitespaceScan(line, index) ==
    IF index >= Len(line) - 1 THEN None
    ELSE IF MissingWhitespaceAt(line, index)
    THEN Found(index, << "E", "2", "3", "1" >>,
               << "missing whitespace after '", Ch(line, index), "'" >>)
    ELSE MissingWhitespaceScan(line, index + 1)

missing_whitespace_check(logical_line) == MissingWhitespaceScan(logical_line, 0)

\* missing_whitespace.fix: the indices of line[:-1] from the last to the
\* first, a space inserted after each flagged one
RECURSIVE MissingWhitespaceInsert(_, _)
MissingWhitespaceInsert(line, index) ==
    IF index < 0 THEN line
    ELSE IF MissingWhitespaceAt(line, index)
    THEN MissingWhitespaceInsert(
             Slice(line, 0, index + 1) \o << " " >> \o SliceFrom(line, index + 1),
             index - 1)
    ELSE MissingWhitespaceInsert(line, index - 1)

missing_whitespace_fix(logical_line) ==
    MissingWhitespaceInsert(logical_line, Len(logical_line) - 2)

indentation_check(logical_line, previous_logical, indent_char, indent_level, previous_indent_level) ==
    LET indent_expect == EndsWith(previous_logical, << ":" >>)
    IN  IF indent_char = " " /\ indent_level % 4 # 0
        THEN Found(0, << "E", "1", "1", "1" >>,
                   << "indentation is not a multiple of four" >>)
        ELSE IF indent_expect /\ indent_level <= previous_indent_level
        THEN Found(0, << "E", "1", "1", "2" >>, << "expected an indented block" >>)
        ELSE IF indent_level > previous_indent_level /\ ~indent_expect
        THEN Found(0, << "E", "1", "1", "3" >>, << "unexpected indentation" >>)
        ELSE None

WordChars == Letters \cup Digits

\* re.search(r'\blambda\b', s)
HasLambdaWord(s) ==
    \E i \in 0..Len(s) :
        /\ Slice(s, i, i + 6) = << "l", "a", "m", "b", "d", "a" >>
        /\ Ch(s, i - 1) \notin WordChars
        /\ Ch(s, i + 6) \notin WordChars

compound_statements_check(logical_line) ==
    LET line == logical_line
        colon == Find(line, << ":" >>)
        before == Slice(line, 0, colon)
        semi == Find(line, << ";" >>)
    IN  IF /\ -1 < colon /\ colon < Len(line) - 1
           /\ CountChar(before, "{") <= CountChar(before, "}")
           /\ CountChar(before, "[") <= CountChar(before, "]")
           /\ ~HasLambdaWord(before)
        THEN Found(colon, << "E", "7", "0", "1" >>,
                   << "multiple statements on one line (colon)" >>)
        ELSE IF -1 < semi
        THEN Found(semi, << "E", "7", "0", "2" >>,
                   << "multiple statements on one line (semicolon)" >>)
        ELSE None

imports_on_separate_lines_check(logical_line) ==
    LET found == Find(logical_line, << "," >>)
    IN  IF StartsWith(logical_line, << "i", "m", "p", "o", "r", "t", " " >>)
           /\ found > -1
        THEN Found(found, << "E", "4", "0", "1" >>,
                   << "multiple imports on one line" >>)
        ELSE None

python_3000_has_key_check(logical_line) ==
    LET pos == Find(logical_line,
                    << ".", "h", "a", "s", "_", "k", "e", "y", "(" >>)
    IN  IF pos > -1
        THEN Found(pos, << "W", "6", "0", "1" >>,
                   << ".has_key() is deprecated, use 'in'" >>)
        ELSE None

python_3000_not_equal_check(logical_line) ==
    LET pos == Find(logical_line, << "<", ">" >>)
    IN  IF pos > -1
        THEN Found(pos, << "W", "6", "0", "3" >>,
                   << "'<>' is deprecated, use '!='" >>)
        ELSE None

python_3000_backticks_check(logical_line) ==
    LET pos == Find(logical_line, << Backtick >>)
    IN  IF pos > -1
        THEN Found(pos, << "W", "6", "0", "4" >>,
                   << "backticks are deprecated, use 'repr()'" >>)
        ELSE None

whitespace_around_comma_check(logical_line) ==
    LET line == logical_line
        Sep(k) == << << ",", ";", ":" >>[k] >>
        \* the first separator, in the order ',;:', found with two spaces or
        \* a tab after it
        Hit(k) == Find(line, Sep(k) \o << " ", " " >>) > -1
                  \/ Find(line, Sep(k) \o << "\t" >>) > -1
    IN  IF \E k \in 1..3 : Hit(k)
        THEN LET k == CHOOSE j \in 1..3 : Hit(j) /\ \A i \in 1..(j - 1) : ~Hit(i)
                 two == Find(line, Sep(k) \o << " ", " " >>)
             IN  IF two > -1
                 THEN Found(two + 1, << "E", "2", "4", "1" >>,
                            << "multiple spaces after '" >> \o Sep(k) \o << "'" >>)
                 ELSE Found(Find(line, Sep(k) \o << "\t" >>) + 1,
                            << "E", "2", "4", "2" >>,
                            << "tab after '" >> \o Sep(k) \o << "'" >>)
        ELSE None

\* re.sub(r'[,;:][ \t]+(?!#)', lambda match: match.group().strip() + ' ', s)
RECURSIVE AroundCommaSub(_, _)
AroundCommaSub(line, pos) ==
    LET longest == RunEnd(line, pos + 1, { " ", "\t" })
        \* the run of blanks gives one back when a '#' follows it
        stop == IF Ch(line, longest) = "#" THEN longest - 1 ELSE longest
    IN  IF pos >= Len(line) THEN << >>
        ELSE IF Ch(line, pos) \in { ",", ";", ":" } /\ stop > pos + 1
        THEN << Ch(line, pos), " " >> \o AroundCommaSub(line, stop)
        ELSE << Ch(line, pos) >> \o AroundCommaSub(line, pos + 1)

whitespace_around_comma_fix(logical_line) == AroundCommaSub(logical_line, 0)

\* keyword.kwlist of Python 2
Keywords ==
    { << "a", "n", "d" >>, << "a", "s" >>, << "a", "s", "s", "e", "r", "t" >>,
      << "b", "r", "e", "a", "k" >>, << "c", "l", "a", "s", "s" >>,
      << "c", "o", "n", "t", "i", "n", "u", "e" >>, << "d", "e", "f" >>,
      << "d", "e", "l" >>, << "e", "l", "i", "f" >>, << "e", "l", "s", "e" >>,
      << "e", "x", "c", "e", "p", "t" >>, << "e", "x", "e", "c" >>,
      << "f", "i", "n", "a", "l", "l", "y" >>, << "f", "o", "r" >>,
      << "f", "r", "o", "m" >>, << "g", "l", "o", "b", "a", "l" >>,
      << "i", "f" >>, << "i", "m", "p", "o", "r", "t" >>, << "i", "n" >>,
      << "i", "s" >>, << "l", "a", "m", "b", "d", "a" >>, << "n", "o", "t" >>,
      << "o", "r" >>, << "p", "a", "s", "s" >>, << "p", "r", "i", "n", "t" >>,
      << "r", "a", "i", "s", "e" >>, << "r", "e", "t", "u", "r", "n" >>,
      << "t", "r", "y" >>, << "w", "h", "i", "l", "e" >>, << "w", "i", "t", "h" >>,
      << "y", "i", "e", "l", "d" >> }

\* whitespace_before_parameters.check: the for loop from index on (0-based)
RECURSIVE BeforeParametersScan(_, _)
BeforeParametersScan(tokens, index) ==
    LET tok == tokens[index + 1]
        prev == tokens[index]
    IN  IF index >= Len(tokens) THEN None
        ELSE IF /\ tok.type = "OP"
                /\ IsSubstr(tok.text, << "(", "[" >>)
                /\ << tok.srow, tok.scol >> # << prev.erow, prev.ecol >>
                /\ (prev.type = "NAME" \/ IsSubstr(prev.text, << "}", "]", ")" >>))
                /\ (index < 2 \/ tokens[index - 1].text # << "c", "l", "a", "s", "s" >>)
                /\ prev.text \notin Keywords
        THEN FoundAt(<< prev.erow, prev.ecol >>, << "E", "2", "1", "1" >>,
                   << "whitespace before '" >> \o tok.text \o << "'" >>)
        ELSE BeforeParametersScan(tokens, index + 1)

whitespace_before_parameters_check(logical_line, tokens) ==
    BeforeParametersScan(tokens, 1)

\* whitespace_before_inline_comment.check: the for loop from token k on
RECURSIVE InlineCommentScan(_, _, _, _)
InlineCommentScan(tokens, lines, k, prev_end) ==
    LET tok == tokens[k]
        line == lines[tok.srow]
    IN  IF k > Len(tokens) THEN None
        ELSE IF tok.type = "NL" THEN InlineCommentScan(tokens, lines, k + 1, prev_end)
        ELSE IF tok.type = "COMMENT"
        THEN IF Strip(Slice(line, 0, tok.scol)) = << >>
             THEN InlineCommentScan(tokens, lines, k + 1, prev_end)
             ELSE IF prev_end[1] = tok.srow /\ tok.scol < prev_end[2] + 2
             THEN FoundAt(prev_end, << "E", "2", "6", "1" >>,
                          << "at least two spaces before inline comment" >>)
             ELSE IF (Len(tok.text) > 1 /\ StartsWith(tok.text, << "#", " ", " " >>))
                     \/ ~StartsWith(tok.text, << "#", " " >>)
             THEN FoundAt(<< tok.srow, tok.scol >>, << "E", "2", "6", "2" >>,
                          << "inline comment should start with '# '" >>)
             ELSE InlineCommentScan(tokens, lines, k + 1, prev_end)
        ELSE InlineCommentScan(tokens, lines, k + 1, << tok.erow, tok.ecol >>)

whitespace_before_inline_comment_check(logical_line, tokens, lines) ==
    InlineCommentScan(tokens, lines, 1, << 0, 0 >>)

\* Check.all_checks for logical lines, sorted by class name (checks.sort()).
\* The three checks of arithmetic and assignment operators
\* (missing_whitespace_around_operator, whitespace_around_named_parameter_equals,
\* whitespace_around_operator) and python_3000_raise_comma return None on
\* every line without an operator and without 'raise'; the files of this
\* model hold neither, and the four are left out of the list.
LogicalNames ==
    << "blank_lines", "compound_statements", "extraneous_whitespace",
       "imports_on_separate_lines", "indentation", "missing_whitespace",
       "python_3000_backticks", "python_3000_has_key", "python_3000_not_equal",
       "whitespace_around_comma", "whitespace_before_inline_comment",
       "whitespace_before_parameters" >>

\* the codes attribute of each check class; whitespace_before_inline_comment
\* spells it CODES and so inherits the empty list of Check
CodesOf(name) ==
    CASE name = "maximum_line_length" -> << << "E", "5", "0", "1" >> >>
      [] name = "missing_newline" -> << << "W", "2", "9", "2" >> >>
      [] name = "tabs_obsolete" -> << << "W", "1", "9", "1" >> >>
      [] name = "tabs_or_spaces" -> << << "E", "1", "0", "1" >> >>
      [] name = "trailing_blank_lines" -> << << "W", "3", "9", "1" >> >>
      [] name = "trailing_whitespace" ->
            << << "W", "2", "9", "1" >>, << "W", "2", "9", "3" >> >>
      [] name = "blank_lines" ->
            << << "E", "3", "0", "1" >>, << "E", "3", "0", "2" >>,
               << "E", "3", "0", "3" >>, << "E", "3", "0", "4" >> >>
      [] name = "compound_statements" ->
            << << "E", "7", "0", "1" >>, << "E", "7", "0", "2" >> >>
      [] name = "extraneous_whitespace" ->
            << << "E", "2", "0", "1" >>, << "E", "2", "0", "2" >>,
               << "E", "2", "0", "3" >> >>
      [] name = "imports_on_separate_lines" -> << << "E", "4", "0", "1" >> >>
      [] name = "indentation" ->
            << << "E", "1", "1", "1" >>, << "E", "1", "1", "2" >>,
               << "E", "1", "1", "3" >> >>
      [] name = "missing_whitespace" -> << << "E", "2", "3", "1" >> >>
      [] name = "python_3000_backticks" -> << << "W", "6", "0", "4" >> >>
      [] name = "python_3000_has_key" -> << << "W", "6", "0", "1" >> >>
      [] name = "python_3000_not_equal" -> << << "W", "6", "0", "3" >> >>
      [] name = "whitespace_around_comma" ->
            << << "E", "2", "4", "1" >>, << "E", "2", "4", "2" >> >>
      [] name = "whitespace_before_inline_comment" -> << >>
      [] name = "whitespace_before_parameters" -> << << "E", "2", "1", "1" >> >>

\* hasattr(check, 'fix')
HasFix(name) ==
    name \in { "missing_newline", "tabs_obsolete", "tabs_or_spaces",
               "trailing_blank_lines", "trailing_whitespace", "blank_lines",
               "extraneous_whitespace", "missing_whitespace",
               "whitespace_around_comma" }

(***************************************************************************)
(* The state.                                                              *)
(***************************************************************************)
VARIABLES
    select,        \* options.select: list of code prefixes
    ignore,        \* options.ignore: list of code prefixes
    quiet,         \* options.quiet: count of -q
    repeat,        \* options.repeat
    counters,      \* options.counters, restricted to the violation codes
    messages,      \* options.messages: first-seen message text per code
    file_errors,   \* Checker.file_errors of the file being checked
    out,           \* what message() has printed, in order
    calls,         \* history: how many times report_error was called per code
    \* the run of _main
    args,          \* the paths given on the command line
    argi,          \* the for loop of _main: index of the path being checked
    fs,            \* the files: path -> list of lines, as readlines gives it
    implicit,      \* the tokenize of the interpreter emits the implicit NEWLINE
    fix,           \* options.fix: count of --fix
    inplace,       \* options.inplace: count of --inplace
    pc,            \* "main", "check_all", "raised" (uncaught exception), "exit"
    exc,           \* the exception that ended the run, "" when none
    \* the Checker of the file being checked
    filename, lines, write_filename, line_number, indent_char, indent_level,
    previous_indent_level, previous_logical, blank_lines,
    blank_lines_before_comment, comment, tokens, parens, physical_line,
    fixed_physical_lines, logical_line, mapping, muted_strings, writer,
    \* tokenize.generate_tokens(self.readline_check_physical)
    gen,           \* the generator: [toks, err, errRow] of the file
    pos,           \* index of the next token the generator yields
    \* history
    results,       \* per path checked, what the logical checks returned
    written        \* the files written, with the progress of the token loop

reportVars == << select, ignore, quiet, repeat, counters, messages,
                 file_errors, out, calls >>

runVars == << args, argi, fs, implicit, fix, inplace, pc, exc >>

checkerVars == << filename, lines, write_filename, line_number, indent_char,
                  indent_level, previous_indent_level, previous_logical,
                  blank_lines, blank_lines_before_comment, comment, tokens,
                  parens, physical_line, fixed_physical_lines, logical_line,
                  mapping, muted_strings, writer, gen, pos >>

historyVars == << results, written >>

vars == << reportVars, runVars, checkerVars, historyVars >>

(***************************************************************************)
(* Violation codes and message texts followed by the reporter              *)
(* specification.                                                          *)
(***************************************************************************)
E201 == << "E", "2", "0", "1" >>
E241 == << "E", "2", "4", "1" >>
W291 == << "W", "2", "9", "1" >>

RepCodes == { E201, E241, W291 }

\* the text a rule returns: the code, a space, the message
TextOf(code, msg) == code \o << " " >> \o << msg >>

\* prefixes a user gives after --select= or --ignore=
UserPrefixes == { << "E" >>, << "E", "2" >>, << "W" >> }

\* the command-line values of --select / --ignore: '' when not given
RawFilterArgs ==
    { JoinComma(l) : l \in UNION { [1..n -> UserPrefixes] : n \in 0..MaxFilters } }

(***************************************************************************)
(* process_options: the select and ignore lists.                           *)
(***************************************************************************)
ProcessSelect(selectArg) ==
    IF selectArg # << >> THEN SplitComma(selectArg) ELSE << >>

ProcessIgnore(selectArg, ignoreArg, testsuiteOrDoctest) ==
    IF ignoreArg # << >> THEN SplitComma(ignoreArg)
    ELSE IF ProcessSelect(selectArg) # << >> THEN << << >> >>
    ELSE IF testsuiteOrDoctest THEN << >>
    ELSE SplitComma(DEFAULT_IGNORE)

(***************************************************************************)
(* ignore_code: "False", "True" or "None" (no return statement reached).   *)
(***************************************************************************)
IgnoreCodeIgnoreFirst(code) ==
    IF \E i \in 1..Len(ignore) : StartsWith(code, ignore[i]) THEN "True"
    ELSE IF \E i \in 1..Len(select) : StartsWith(code, select[i]) THEN "False"
    ELSE "None"

IgnoreCodeStrictSelect(code) ==
    IF \E i \in 1..Len(select) : StartsWith(code, select[i]) THEN "False"
    ELSE IF select # << >> THEN "True"
    ELSE IF \E i \in 1..Len(ignore) : StartsWith(code, ignore[i]) THEN "True"
    ELSE "None"

IgnoreCode(code) ==
    IF \E i \in 1..Len(select) : StartsWith(code, select[i]) THEN "False"
    ELSE IF \E i \in 1..Len(ignore) : StartsWith(code, ignore[i]) THEN "True"
    ELSE "None"

\* Python truth value of ignore_code's result
Truthy(v) == v = "True"

(***************************************************************************)
(* Checker.report_error, on the reporter state                             *)
(*   R = [counters, messages, file_errors, out].                           *)
(***************************************************************************)
Reporter == [ counters |-> counters, messages |-> messages,
              file_errors |-> file_errors, out |-> out ]

CountError(R, code, text) ==
    IF code \in DOMAIN R.counters
    THEN [R EXCEPT !.counters = [@ EXCEPT ![code] = @ + 1]]
    ELSE [R EXCEPT !.counters = code :> 1 @@ @,
                   !.messages = code :> SliceFrom(text, 5) @@ @]

PrintError(R, path, line_offset, number, offset, text) ==
    [R EXCEPT !.out = Append(@, [file |-> path,
                                  row |-> line_offset + number,
                                  col |-> offset + 1,
                                  text |-> text])]

ReportErrorCountFirst(R, path, expected, line_offset, number, offset, text) ==
    LET code == Slice(text, 0, 4)
        R2 == CountError(R, code, text)
    IN  IF Truthy(IgnoreCode(code)) THEN R2
        ELSE IF quiet # 0 \/ code \in expected THEN R2
        ELSE LET R3 == [R2 EXCEPT !.file_errors = @ + 1]
             IN  IF R3.counters[code] = 1 \/ repeat
                 THEN PrintError(R3, path, line_offset, number, offset, text)
                 ELSE R3

ReportErrorPrintAll(R, path, expected, line_offset, number, offset, text) ==
    LET code == Slice(text, 0, 4)
    IN  IF Truthy(IgnoreCode(code)) THEN R
        ELSE LET R2 == CountError(R, code, text)
             IN  IF quiet # 0 \/ code \in expected THEN R2
                 ELSE PrintError([R2 EXCEPT !.file_errors = @ + 1],
                                 path, line_offset, number, offset, text)

ReportError(R, path, expected, line_offset, number, offset, text) ==
    LET code == Slice(text, 0, 4)
    IN  IF Truthy(IgnoreCode(code)) THEN R
        ELSE LET R1 == IF quiet = 1 /\ R.file_errors = 0
                       THEN [R EXCEPT !.out = Append(@, [file |-> path])]
                       ELSE R
                 R2 == CountError(R1, code, text)
             IN  IF quiet # 0 \/ code \in expected THEN R2
                 ELSE LET R3 == [R2 EXCEPT !.file_errors = @ + 1]
                      IN  IF R3.counters[code] = 1 \/ repeat
                          THEN PrintError(R3, path, line_offset,
                                          number, offset, text)
                          ELSE R3

SetReporter(R) ==
    /\ counters' = R.counters
    /\ messages' = R.messages
    /\ file_errors' = R.file_errors
    /\ out' = R.out

(***************************************************************************)
(* The Checker.  Self is the Checker object with the reporter state it     *)
(* writes to; an operator named after a method takes the object and        *)
(* returns it as the method leaves it.  Python's None is "None" for        *)
(* indent_char and the empty text for comment and write_filename (only     *)
(* their truth value is read).                                             *)
(***************************************************************************)
Self ==
    [ counters |-> counters, messages |-> messages,
      file_errors |-> file_errors, out |-> out,
      filename |-> filename, lines |-> lines,
      write_filename |-> write_filename, line_number |-> line_number,
      indent_char |-> indent_char, indent_level |-> indent_level,
      previous_indent_level |-> previous_indent_level,
      previous_logical |-> previous_logical, blank_lines |-> blank_lines,
      blank_lines_before_comment |-> blank_lines_before_comment,
      comment |-> comment, tokens |-> tokens, parens |-> parens,
      physical_line |-> physical_line,
      fixed_physical_lines |-> fixed_physical_lines,
      logical_line |-> logical_line, mapping |-> mapping,
      muted_strings |-> muted_strings, writer |-> writer,
      exc |-> exc, results |-> results ]

SetSelf(K) ==
    /\ SetReporter(K)
    /\ filename' = K.filename
    /\ lines' = K.lines
    /\ write_filename' = K.write_filename
    /\ line_number' = K.line_number
    /\ indent_char' = K.indent_char
    /\ indent_level' = K.indent_level
    /\ previous_indent_level' = K.previous_indent_level
    /\ previous_logical' = K.previous_logical
    /\ blank_lines' = K.blank_lines
    /\ blank_lines_before_comment' = K.blank_lines_before_comment
    /\ comment' = K.comment
    /\ tokens' = K.tokens
    /\ parens' = K.parens
    /\ physical_line' = K.physical_line
    /\ fixed_physical_lines' = K.fixed_physical_lines
    /\ logical_line' = K.logical_line
    /\ mapping' = K.mapping
    /\ muted_strings' = K.muted_strings
    /\ writer' = K.writer
    /\ exc' = K.exc
    /\ results' = K.results

\* self.report_error(line_number, offset, text, check) of input_file's
\* Checker: expected = (), line_offset = 0
Report(K, number, offset, text) ==
    ReportError(K, K.filename, {}, 0, number, offset, text)

\* find_checks: the checks of a kind that have no code or one code that
\* ignore_code does not suppress, in sorted order
FindChecks(names) ==
    LET Kept(name) ==
            \/ CodesOf(name) = << >>
            \/ \E i \in 1..Len(CodesOf(name)) :
                  ~Truthy(IgnoreCode(CodesOf(name)[i]))
    IN  SelectSeq(names, Kept)

\* check.check(args) of a check for physical lines, args read from self
PhysicalCheck(name, K) ==
    CASE name = "maximum_line_length" -> maximum_line_length_check(K.physical_line)
      [] name = "missing_newline" -> missing_newline_check(K.physical_line)
      [] name = "tabs_obsolete" -> tabs_obsolete_check(K.physical_line)
      [] name = "tabs_or_spaces" ->
            tabs_or_spaces_check(K.physical_line, K.indent_char)
      [] name = "trailing_blank_lines" ->
            trailing_blank_lines_check(K.physical_line, K.lines, K.line_number)
      [] name = "trailing_whitespace" -> trailing_whitespace_check(K.physical_line)

\* check.fix(self, *args) of a check for physical lines: the new line
PhysicalFix(name, K) ==
    CASE name = "missing_newline" -> missing_newline_fix(K.physical_line)
      [] name = "tabs_obsolete" -> tabs_obsolete_fix(K.physical_line)
      [] name = "tabs_or_spaces" -> tabs_or_spaces_fix(K.physical_line)
      [] name = "trailing_blank_lines" -> trailing_blank_lines_fix(K.physical_line)
      [] name = "trailing_whitespace" -> trailing_whitespace_fix(K.physical_line)

\* the for loop of check_physical over options.physical_checks
RECURSIVE RunPhysical(_, _)
RunPhysical(K, names) ==
    IF names = << >> THEN K
    ELSE LET name == Head(names)
             Fixed(K1, code) ==
                 IF fix # 0 /\ HasFix(name) /\ ~Truthy(IgnoreCode(code))
                 THEN [K1 EXCEPT !.physical_line = PhysicalFix(name, K)]
                 ELSE K1
             After(result) ==
                 IF result.none THEN K
                 ELSE Fixed(Report(K, K.line_number, result.offset, result.text),
                            Slice(result.text, 0, 4))
         IN  RunPhysical(After(PhysicalCheck(name, K)), Tail(names))

CheckPhysicalFixOnly(K, line) ==
    LET K0 == [K EXCEPT !.physical_line = line,
                        !.indent_char =
                            IF @ = "None" /\ Len(line) > 0
                               /\ line[1] \in { " ", "\t" }
                            THEN line[1] ELSE @]
        Done(K1) ==
            IF fix # 0
            THEN [K1 EXCEPT !.fixed_physical_lines = Append(@, K1.physical_line)]
            ELSE K1
    IN  Done(RunPhysical(K0, FindChecks(PhysicalNames)))

CheckPhysicalLast(K, line) ==
    LET K0 == [K EXCEPT !.physical_line = line,
                        !.indent_char =
                            IF Len(line) > 0 /\ line[1] \in { " ", "\t" }
                            THEN line[1] ELSE @]
        Done(K1) == [K1 EXCEPT !.fixed_physical_lines = Append(@, K1.physical_line)]
    IN  Done(RunPhysical(K0, FindChecks(PhysicalNames)))

check_physical(K, line) ==
    LET K0 == [K EXCEPT !.physical_line = line,
                        !.indent_char =
                            IF @ = "None" /\ Len(line) > 0
                               /\ line[1] \in { " ", "\t" }
                            THEN line[1] ELSE @]
        Done(K1) == [K1 EXCEPT !.fixed_physical_lines = Append(@, K1.physical_line)]
    IN  Done(RunPhysical(K0, FindChecks(PhysicalNames)))

\* readline followed by check_physical when the line is not ''
readline_check_physical(K) ==
    LET K1 == [K EXCEPT !.line_number = @ + 1]
    IN  IF K1.line_number > Len(K1.lines) THEN K1
        ELSE check_physical(K1, K1.lines[K1.line_number])

\* the generator resumes and calls readline until it has read line row
RECURSIVE ReadTo(_, _)
ReadTo(K, row) ==
    IF K.line_number >= row THEN K
    ELSE ReadTo(readline_check_physical(K), row)

RECURSIVE ExpandFrom(_, _, _)
ExpandFrom(line, k, result) ==
    IF k > Len(line) THEN result
    ELSE IF line[k] = "\t"
    THEN ExpandFrom(line, k + 1, (result \div TAB_SIZE) * TAB_SIZE + TAB_SIZE)
    ELSE IF line[k] = " " THEN ExpandFrom(line, k + 1, result + 1)
    ELSE result

expand_indent(line) == ExpandFrom(line, 1, 0)

\* s[a:] where a may be negative
PySliceFrom(s, a) == IF a < 0 THEN SliceFrom(s, Max(Len(s) + a, 0)) ELSE SliceFrom(s, a)

\* text.index(q): the first index of q, which the text holds
FirstIndex(text, q) == Find(text, << q >>)

MuteUnchanged(text) == text

MuteSingle(text) ==
    LET start == 1 + (IF EndsWith(text, << "\"" >>) THEN FirstIndex(text, "\"")
                      ELSE IF EndsWith(text, << "'" >>) THEN FirstIndex(text, "'")
                      ELSE 0)
    IN  Slice(text, 0, start) \o Times("x", Len(text) - 1 - start)
            \o PySliceFrom(text, Len(text) - 1)

mute_string(text) ==
    LET start0 == 1 + (IF EndsWith(text, << "\"" >>) THEN FirstIndex(text, "\"")
                       ELSE IF EndsWith(text, << "'" >>) THEN FirstIndex(text, "'")
                       ELSE 0)
        end0 == Len(text) - 1
        triple == EndsWith(text, << "\"", "\"", "\"" >>)
                  \/ EndsWith(text, << "'", "'", "'" >>)
        start == IF triple THEN start0 + 2 ELSE start0
        end == IF triple THEN end0 - 2 ELSE end0
    IN  Slice(text, 0, start) \o Times("x", end - start) \o PySliceFrom(text, end)

SKIP_TOKENS == { "NL", "INDENT", "DEDENT", "NEWLINE" }

RECURSIVE BuildFromSpaced(_, _, _, _, _)
BuildFromSpaced(toks, srclines, k, previous, B) ==
    LET token == toks[k]
        prev == toks[previous]
        prev_text == PyIndex(srclines[prev.erow], prev.ecol - 1)
        Fill(text) ==
            IF previous = 0 THEN << >>
            ELSE IF prev.erow # token.srow
            THEN IF prev_text = ","
                    \/ (prev_text \notin { "{", "[", "(" }
                        /\ ~IsSubstr(text, << "}", "]", ")" >>))
                 THEN << " " >>
                 ELSE << " " >>
            ELSE IF prev.ecol # token.scol
            THEN Slice(srclines[prev.erow], prev.ecol, token.scol)
            ELSE << >>
        Added(text, fill) ==
            [ mapping |-> Append(B.mapping,
                                 [ offset |-> Len(B.logical) + Len(fill),
                                   token |-> token ]),
              logical |-> B.logical \o fill \o text,
              muted_strings |-> IF token.type = "STRING"
                                THEN Append(B.muted_strings, token.text)
                                ELSE B.muted_strings ]
        Add(text) == Added(text, Fill(text))
    IN  IF k > Len(toks) THEN B
        ELSE IF token.type \in SKIP_TOKENS
        THEN BuildFromSpaced(toks, srclines, k + 1, previous, B)
        ELSE BuildFromSpaced(toks, srclines, k + 1, k,
                 Add(IF token.type = "STRING" THEN mute_string(token.text)
                     ELSE token.text))

\* the for loop of build_tokens_line from token k on; previous is the index
\* of the previous kept token, 0 for None; B = [mapping, logical,
\* muted_strings], a mapping entry is [offset, token]
RECURSIVE BuildFrom(_, _, _, _, _)
BuildFrom(toks, srclines, k, previous, B) ==
    LET token == toks[k]
        prev == toks[previous]
        prev_text == PyIndex(srclines[prev.erow], prev.ecol - 1)
        Fill(text) ==
            IF previous = 0 THEN << >>
            ELSE IF prev.erow # token.srow
            THEN IF prev_text = ","
                    \/ (prev_text \notin { "{", "[", "(" }
                        /\ ~IsSubstr(text, << "}", "]", ")" >>))
                 THEN << " " >>
                 ELSE << >>
            ELSE IF prev.ecol # token.scol
            THEN Slice(srclines[prev.erow], prev.ecol, token.scol)
            ELSE << >>
        Added(text, fill) ==
            [ mapping |-> Append(B.mapping,
                                 [ offset |-> Len(B.logical) + Len(fill),
                                   token |-> token ]),
              logical |-> B.logical \o fill \o text,
              muted_strings |-> IF token.type = "STRING"
                                THEN Append(B.muted_strings, token.text)
                                ELSE B.muted_strings ]
        Add(text) == Added(text, Fill(text))
    IN  IF k > Len(toks) THEN B
        ELSE IF token.type \in SKIP_TOKENS
        THEN BuildFrom(toks, srclines, k + 1, previous, B)
        ELSE BuildFrom(toks, srclines, k + 1, k,
                 Add(IF token.type = "STRING" THEN mute_string(token.text)
                     ELSE token.text))

\* build_tokens_line; the assert raises AssertionError
build_tokens_line(K) ==
    LET Asserted(K1) ==
            IF LStrip(K1.logical_line) # K1.logical_line
            THEN [K1 EXCEPT !.exc = "AssertionError"]
            ELSE K1
        Built(B) ==
            Asserted([K EXCEPT !.mapping = B.mapping,
                               !.muted_strings = B.muted_strings,
                               !.logical_line = RStrip(B.logical)])
    IN  Built(BuildFrom(K.tokens, K.lines, 1, 0,
                        [ mapping |-> << >>, logical |-> << >>,
                          muted_strings |-> K.muted_strings ]))

\* check.check(args) of a check for logical lines, args read from self
LogicalCheck(name, K) ==
    CASE name = "blank_lines" ->
            blank_lines_check(K.logical_line, K.blank_lines, K.indent_level,
                              K.line_number, K.previous_logical,
                              K.previous_indent_level,
                              K.blank_lines_before_comment)
      [] name = "compound_statements" -> compound_statements_check(K.logical_line)
      [] name = "extraneous_whitespace" -> extraneous_whitespace_check(K.logical_line)
      [] name = "imports_on_separate_lines" ->
            imports_on_separate_lines_check(K.logical_line)
      [] name = "indentation" ->
            indentation_check(K.logical_line, K.previous_logical, K.indent_char,
                              K.indent_level, K.previous_indent_level)
      [] name = "missing_whitespace" -> missing_whitespace_check(K.logical_line)
      [] name = "python_3000_backticks" -> python_3000_backticks_check(K.logical_line)
      [] name = "python_3000_has_key" -> python_3000_has_key_check(K.logical_line)
      [] name = "python_3000_not_equal" -> python_3000_not_equal_check(K.logical_line)
      [] name = "whitespace_around_comma" -> whitespace_around_comma_check(K.logical_line)
      [] name = "whitespace_before_inline_comment" ->
            whitespace_before_inline_comment_check(K.logical_line, K.tokens, K.lines)
      [] name = "whitespace_before_parameters" ->
            whitespace_before_parameters_check(K.logical_line, K.tokens)

\* check.fix(self, *args): the fix assigns a field of the checker and
\* returns None
LogicalFix(name, K) ==
    CASE name = "blank_lines" ->
            [K EXCEPT !.blank_lines =
                blank_lines_fix(K.logical_line, K.blank_lines, K.indent_level,
                                K.line_number, K.previous_logical,
                                K.previous_indent_level,
                                K.blank_lines_before_comment)]
      [] name = "extraneous_whitespace" ->
            [K EXCEPT !.logical_line = extraneous_whitespace_fix(K.logical_line)]
      [] name = "missing_whitespace" ->
            [K EXCEPT !.logical_line = missing_whitespace_fix(K.logical_line)]
      [] name = "whitespace_around_comma" ->
            [K EXCEPT !.logical_line = whitespace_around_comma_fix(K.logical_line)]

\* original_number, original_offset before any assignment
Unbound == << -1, -1 >>

\* for token_offset, token in self.mapping: if offset >= token_offset: ...
RECURSIVE MapOffset(_, _, _, _)
MapOffset(map, k, offset, original) ==
    IF k > Len(map) THEN original
    ELSE MapOffset(map, k + 1, offset,
                   IF offset >= map[k].offset
                   THEN << map[k].token.srow,
                           map[k].token.scol + offset - map[k].offset >>
                   ELSE original)

\* the for loop of check_logical over options.logical_checks; original is
\* (original_number, original_offset), which one iteration leaves to the next
RECURSIVE RunLogical(_, _, _)
RunLogical(K, names, original) ==
    IF names = << >> \/ K.exc # "" THEN K
    ELSE LET name == Head(names)
             Fixed(K2, code) ==
                 IF fix # 0 /\ HasFix(name) /\ ~Truthy(IgnoreCode(code))
                 THEN LogicalFix(name, K2)
                 ELSE K2
             Recorded(K1, result, at) ==
                 [K1 EXCEPT !.results[Len(K.results)] =
                      Append(@, [ name |-> name, code |-> Slice(result.text, 0, 4),
                                  tuple |-> result.tuple,
                                  row |-> at[1], col |-> at[2],
                                  rows |-> { K.mapping[i].token.srow
                                               : i \in 1..Len(K.mapping) }
                                           \cup { K.mapping[i].token.erow
                                                    : i \in 1..Len(K.mapping) } ])]
             Reported(result, at) ==
                 IF at = Unbound
                 THEN [K EXCEPT !.exc = "UnboundLocalError"]
                 ELSE RunLogical(Fixed(Recorded(Report(K, at[1], at[2], result.text),
                                                result, at),
                                       Slice(result.text, 0, 4)),
                                 Tail(names), at)
             After(result) ==
                 IF result.none THEN RunLogical(K, Tail(names), original)
                 ELSE Reported(result,
                               IF result.tuple THEN result.offset
                               ELSE MapOffset(K.mapping, 1, result.offset, original))
         IN  After(LogicalCheck(name, K))

\* the for loop over self.muted_strings that puts the strings back into
\* the logical line: [line, exc]
RECURSIVE RestoreStrings(_, _, _)
RestoreStrings(line, muted, str_index) ==
    LET original == Head(muted)
        Put(at) ==
            RestoreStrings(Slice(line, 0, at) \o original
                               \o SliceFrom(line, at + Len(original)),
                           Tail(muted), at + Len(original))
        Search(found) ==
            IF found < 0 THEN [ line |-> line, exc |-> "AttributeError" ]
            ELSE Put(str_index + found)
        Xs(muted_string, quotes) ==
            Slice(muted_string, 0, Len(quotes))
                \o Times("x", Len(muted_string) - 2 * Len(quotes))
                \o PySliceFrom(muted_string, 0 - Len(quotes))
        Quoted(muted_string, q) ==
            Xs(muted_string, IF Slice(muted_string, 0, 3) = q \o q \o q
                             THEN Slice(muted_string, 0, 3) ELSE q)
        \* str_modifiers: the modlen characters that precede the first quote
        Split(modlen) ==
            Search(Find(SliceFrom(line, str_index),
                        Slice(original, 0, modlen)
                            \o Quoted(SliceFrom(original, modlen),
                                      Slice(original, modlen, modlen + 1))))
    IN  IF muted = << >> THEN [ line |-> line, exc |-> "" ]
        ELSE Split(Min(IF Find(original, << "'" >>) < 0 THEN Len(original)
                       ELSE Find(original, << "'" >>),
                       IF Find(original, << "\"" >>) < 0 THEN Len(original)
                       ELSE Find(original, << "\"" >>)))

\* '\n' * n
Newlines(n) == Times("\n", n)

\* the indentation check_logical writes before a fixed logical line
WrittenIndent(K) ==
    Repeat(IF K.indent_char = "None" THEN Times(" ", 4) ELSE << K.indent_char >>,
           K.indent_level)

RewriteLogical(K, numbers) ==
    LET Restored(R) ==
            IF R.exc # "" THEN [K EXCEPT !.exc = R.exc]
            ELSE [K EXCEPT !.logical_line = R.line,
                           !.writer = @ \o Newlines(K.blank_lines)
                                        \o WrittenIndent(K) \o R.line
                                        \o << "\n" >>,
                           !.comment = << >>]
    IN  Restored(RestoreStrings(K.logical_line, K.muted_strings, 0))

\* the "if options.fix:" block of check_logical;
\* numbers = physical_line_numbers, 0-based
Rewrite(K, numbers) ==
    LET first == CHOOSE n \in numbers : \A m \in numbers : n <= m
        last == CHOOSE n \in numbers : \A m \in numbers : n >= m
        Restored(R) ==
            IF R.exc # "" THEN [K EXCEPT !.exc = R.exc]
            ELSE [K EXCEPT !.logical_line = R.line,
                           !.writer = @ \o Newlines(K.blank_lines)
                                        \o WrittenIndent(K) \o R.line
                                        \o << "\n" >>,
                           !.comment = << >>]
    IN  IF Cardinality(numbers) = 1
        THEN Restored(RestoreStrings(K.logical_line, K.muted_strings, 0))
        ELSE IF last + 1 > Len(K.fixed_physical_lines)
        THEN [K EXCEPT !.exc = "IndexError"]
        ELSE [K EXCEPT !.writer =
                 @ \o Newlines(K.blank_lines)
                   \o Concat(SubSeq(K.fixed_physical_lines, first + 1, last + 1))]

check_logical(K) ==
    LET Finish(K4) ==
            IF K4.exc # "" THEN K4
            ELSE [K4 EXCEPT !.previous_logical = K4.logical_line]
        Fix(K3, physical_line_numbers) ==
            Finish(IF fix # 0 /\ K3.exc = ""
                   THEN Rewrite(K3, physical_line_numbers)
                   ELSE K3)
        Numbers(K1) ==
            { K1.mapping[i].token.srow - 1 : i \in 1..Len(K1.mapping) }
                \cup { K1.mapping[i].token.erow - 1 : i \in 1..Len(K1.mapping) }
        Checks(K1, first) ==
            Fix(RunLogical([K1 EXCEPT
                               !.previous_indent_level = K1.indent_level,
                               !.indent_level =
                                   expand_indent(Slice(K1.lines[first.srow], 0,
                                                       first.scol))],
                           FindChecks(LogicalNames), Unbound),
                Numbers(K1))
        Built(K1) ==
            IF K1.exc # "" THEN K1
            ELSE IF K1.mapping = << >> \/ K1.mapping[1].token.srow > Len(K1.lines)
            THEN [K1 EXCEPT !.exc = "IndexError"]
            ELSE Checks(K1, K1.mapping[1].token)
    IN  Built(build_tokens_line([K EXCEPT !.muted_strings = << >>]))

NotParensOrBelow(depth) == depth <= 0

NotParensOrAbove(depth) == depth >= 0

\* "not parens": the token is outside every bracket
NotParens(depth) == depth = 0

\* the body of the for loop of check_all for one token
LoopBody(K, token) ==
    LET opens == token.type = "OP" /\ IsSubstr(token.text, << "(", "[", "{" >>)
        closes == token.type = "OP" /\ IsSubstr(token.text, << "}", "]", ")" >>)
        \* NEWLINE outside brackets
        Newline(checked) ==
            IF checked.exc # "" THEN checked
            ELSE [checked EXCEPT !.blank_lines = 0,
                                 !.blank_lines_before_comment = 0,
                                 !.tokens = << >>]
        \* NL outside brackets
        Counted(N1) ==
            [(IF Len(N1.tokens) <= 1
              THEN [N1 EXCEPT !.blank_lines = @ + 1] ELSE N1)
                EXCEPT !.tokens = << >>]
        Nl(K1) ==
            Counted(IF K1.comment # << >> /\ fix # 0
                    THEN [K1 EXCEPT
                             !.writer = @ \o Newlines(K1.blank_lines_before_comment)
                                          \o K1.comment \o << "\n" >>,
                             !.comment = << >>,
                             !.blank_lines_before_comment = 0]
                    ELSE K1)
        \* COMMENT
        Alone(C2, source_line) ==
            IF Len(C2.tokens) = 1
            THEN [C2 EXCEPT !.comment = RStrip(source_line)] ELSE C2
        Ended(C1, source_line) ==
            Alone(IF EndsWith(token.text, << "\n" >>) /\ NotParens(C1.parens)
                  THEN [C1 EXCEPT !.tokens = << >>] ELSE C1,
                  source_line)
        Comment(K1, source_line) ==
            Ended(IF Strip(Slice(source_line, 0, token.scol)) = << >>
                  THEN [K1 EXCEPT !.blank_lines_before_comment =
                                      Max(K1.blank_lines,
                                          K1.blank_lines_before_comment),
                                  !.blank_lines = 0]
                  ELSE K1,
                  source_line)
        Body(K1) ==
            IF token.type = "NEWLINE" /\ NotParens(K1.parens)
            THEN Newline(check_logical(K1))
            ELSE IF token.type = "NL" /\ NotParens(K1.parens) THEN Nl(K1)
            ELSE IF token.type = "COMMENT" THEN Comment(K1, K1.lines[token.srow])
            ELSE K1
    IN  Body([K EXCEPT !.tokens = Append(@, token),
                       !.parens = @ + (IF opens THEN 1 ELSE 0)
                                    - (IF closes THEN 1 ELSE 0)])

(***************************************************************************)
(* The reporter specification: process_options, then any sequence of       *)
(* report_error calls made by the checks of the files of a run.            *)
(***************************************************************************)
EmptyMap == [c \in {} |-> 0]

\* no file is being checked: the fields of a Checker before check_all
NewChecker ==
    /\ line_number = 0
    /\ indent_char = "None"
    /\ indent_level = 0
    /\ previous_indent_level = 0
    /\ previous_logical = << >>
    /\ blank_lines = 0
    /\ blank_lines_before_comment = 0
    /\ comment = << >>
    /\ tokens = << >>
    /\ parens = 0
    /\ physical_line = << >>
    /\ fixed_physical_lines = << >>
    /\ logical_line = << >>
    /\ mapping = << >>
    /\ muted_strings = << >>
    /\ writer = << >>

\* the reporter specification follows no file
NoRun ==
    /\ args = << >> /\ argi = 1 /\ fs = EmptyMap
    /\ implicit = FALSE /\ fix = 0 /\ inplace = 0
    /\ pc = "main" /\ exc = ""
    /\ filename = << >> /\ lines = << >> /\ write_filename = << >>
    /\ NewChecker
    /\ gen = [ toks |-> << >>, err |-> "", errRow |-> 0 ]
    /\ pos = 1
    /\ results = << >> /\ written = << >>

RepInit ==
    /\ NoRun
    /\ \E selectArg \in RawFilterArgs, ignoreArg \in RawFilterArgs,
          testsuiteOrDoctest \in BOOLEAN :
          /\ select = ProcessSelect(selectArg)
          /\ ignore = ProcessIgnore(selectArg, ignoreArg, testsuiteOrDoctest)
    /\ quiet \in 0..2
    /\ repeat \in BOOLEAN
    /\ counters = EmptyMap
    /\ messages = EmptyMap
    /\ file_errors = 0
    /\ out = << >>
    /\ calls = [c \in RepCodes |-> 0]

\* number of report_error calls so far
RECURSIVE SumCalls(_)
SumCalls(S) ==
    IF S = {} THEN 0
    ELSE LET c == CHOOSE x \in S : TRUE IN calls[c] + SumCalls(S \ {c})

\* a check of the file being checked returns (offset, text): report_error
RepReport ==
    /\ SumCalls(RepCodes) < MaxCalls
    /\ \E code \in RepCodes :
          /\ SetReporter(ReportError(Reporter, "a.py", {}, 0, 1, 0,
                                     TextOf(code, "message")))
          /\ calls' = [calls EXCEPT ![code] = @ + 1]
    /\ UNCHANGED << select, ignore, quiet, repeat >>
    /\ UNCHANGED << runVars, checkerVars, historyVars >>

\* input_file: the next Checker's check_all starts, file_errors = 0
RepNextFile ==
    /\ file_errors > 0
    /\ file_errors' = 0
    /\ UNCHANGED << select, ignore, quiet, repeat, counters, messages, out, calls >>
    /\ UNCHANGED << runVars, checkerVars, historyVars >>

RepNext == RepReport \/ RepNextFile

SpecReport == RepInit /\ [][RepNext]_vars


(***************************************************************************)
(* The run of _main: pep8 [--fix [--inplace]] path path, with the default  *)
(* select and ignore lists.  The first path names a file of up to MaxLines *)
(* lines, the second path the same file or a second one whose lines        *)
(* differ from the first in the characters inside its string literals.     *)
(***************************************************************************)
APath == << "a" >>
BPath == << "b" >>

\* what a string literal of a file holds between its quotes
Interiors == { << "a", "b" >>, << ",", ":" >> }

\* the lines a file is made of
LineMenu(interior) ==
    << << "a", ":", "\n" >>,
       << " ", " ", " ", " ", "b", "\n" >>,
       << "\t", "b", "\n" >>,
       << " ", " ", "b", "\n" >>,
       << "\n" >>,
       << "(", "'", "'", "'" >> \o interior \o << "\n" >>,
       << "'", "'", "'", " ", ")", "\n" >>,
       << "f", " ", "(", "'" >> \o interior \o << "'", " ", ")", ";", "b", "\n" >> >>

MenuSize == Len(LineMenu(<< >>))

\* the file made of the menu lines picked, the last line without its
\* newline when the file does not end with one
FileOf(picked, interior, newline_at_end) ==
    [ i \in 1..Len(picked) |->
        LET line == LineMenu(interior)[picked[i]]
        IN  IF i = Len(picked) /\ ~newline_at_end
            THEN Slice(line, 0, Len(line) - 1)
            ELSE line ]

\* the command lines followed: check two files, fix two files into
\* fixed_<path>, fix one file in place twice
Runs ==
    { [ args |-> << APath, BPath >>, fix |-> 0, inplace |-> 0 ],
      [ args |-> << APath, BPath >>, fix |-> 1, inplace |-> 0 ],
      [ args |-> << APath, APath >>, fix |-> 1, inplace |-> 1 ] }

Range(l) == { l[i] : i \in 1..Len(l) }

\* file.readlines() of a file that holds text
RECURSIVE SplitLines(_)
SplitLines(text) ==
    LET nl == Find(text, << "\n" >>)
    IN  IF text = << >> THEN << >>
        ELSE IF nl < 0 THEN << text >>
        ELSE << Slice(text, 0, nl + 1) >> \o SplitLines(SliceFrom(text, nl + 1))

Init ==
    /\ select = ProcessSelect(<< >>)
    /\ ignore = ProcessIgnore(<< >>, << >>, FALSE)
    /\ quiet = 0
    /\ repeat = FALSE
    /\ counters = EmptyMap
    /\ messages = EmptyMap
    /\ file_errors = 0
    /\ out = << >>
    /\ calls = [c \in RepCodes |-> 0]
    /\ \E run \in Runs :
          /\ args = run.args /\ fix = run.fix /\ inplace = run.inplace
          /\ \E n \in 1..MaxLines :
                \E picked \in [1..n -> 1..MenuSize] :
                   \E ia \in Interiors, ib \in Interiors, newline_at_end \in BOOLEAN :
                      /\ newline_at_end \/ LineMenu(ia)[picked[n]] # << "\n" >>
                      /\ fs = IF BPath \in Range(run.args)
                              THEN (APath :> FileOf(picked, ia, newline_at_end))
                                     @@ (BPath :> FileOf(picked, ib, newline_at_end))
                              ELSE (APath :> FileOf(picked, ia, newline_at_end))
                      \* the two kinds of tokenize differ on a file without
                      \* final newline only
                      /\ implicit \in (IF newline_at_end THEN { FALSE } ELSE BOOLEAN)
    /\ argi = 1
    /\ pc = "main"
    /\ exc = ""
    /\ filename = << >> /\ lines = << >> /\ write_filename = << >>
    /\ NewChecker
    /\ gen = [ toks |-> << >>, err |-> "", errRow |-> 0 ]
    /\ pos = 1
    /\ results = << >>
    /\ written = << >>

\* _main takes the next path: input_file makes a Checker (__init__) and
\* check_all sets its fields before the token loop
Main ==
    /\ pc = "main"
    /\ argi <= Len(args)
    /\ filename' = args[argi]
    /\ lines' = fs[args[argi]]
    /\ write_filename' = IF fix = 0 THEN << >>
                         ELSE IF inplace # 0 THEN args[argi]
                         ELSE << "fixed_" >> \o args[argi]
    /\ line_number' = 0
    /\ file_errors' = 0
    /\ indent_char' = "None"
    /\ indent_level' = 0
    /\ previous_indent_level' = 0
    /\ previous_logical' = << >>
    /\ blank_lines' = 0
    /\ blank_lines_before_comment' = 0
    /\ comment' = << >>
    /\ tokens' = << >>
    /\ parens' = 0
    /\ physical_line' = << >>
    /\ fixed_physical_lines' = << >>
    /\ logical_line' = << >>
    /\ mapping' = << >>
    /\ muted_strings' = << >>
    /\ writer' = << >>
    /\ gen' = GenerateTokens(fs[args[argi]], implicit)
    /\ pos' = 1
    /\ pc' = "check_all"
    /\ results' = Append(results, << >>)
    /\ UNCHANGED << select, ignore, quiet, repeat, counters, messages, out, calls,
                    args, argi, fs, implicit, fix, inplace, exc, written >>

\* one iteration of the for loop of check_all: the generator reads the
\* lines it needs (each goes through check_physical) and yields a token,
\* the loop body handles it; an exception of the body ends the run
NextToken ==
    /\ pc = "check_all"
    /\ pos <= Len(gen.toks)
    /\ \E K \in { LoopBody(ReadTo(Self, gen.toks[pos].erow), gen.toks[pos]) } :
          /\ SetSelf(K)
          /\ pc' = IF K.exc # "" THEN "raised" ELSE pc
    /\ pos' = pos + 1
    /\ UNCHANGED << select, ignore, quiet, repeat, calls,
                    args, argi, fs, implicit, fix, inplace, gen, written >>

\* the generator reads on and raises TokenError or IndentationError: no
\* frame of check_all, input_file or _main catches it
Raise ==
    /\ pc = "check_all"
    /\ pos > Len(gen.toks)
    /\ gen.err # ""
    /\ SetSelf([ReadTo(Self, gen.errRow) EXCEPT !.exc = gen.err])
    /\ pc' = "raised"
    /\ UNCHANGED << select, ignore, quiet, repeat, calls,
                    args, argi, fs, implicit, fix, inplace, gen, pos, written >>

ReturnOnError ==
    /\ pc = "check_all"
    /\ pos > Len(gen.toks)
    /\ IF write_filename # << >>
       THEN /\ fs' = (write_filename :> SplitLines(writer)) @@ fs
            /\ written' = Append(written,
                                 [ arg |-> argi, path |-> write_filename,
                                   content |-> SplitLines(writer),
                                   consumed |-> pos - 1,
                                   total |-> Len(gen.toks), err |-> gen.err ])
       ELSE UNCHANGED << fs, written >>
    /\ argi' = argi + 1
    /\ pc' = "main"
    /\ UNCHANGED << reportVars, args, implicit, fix, inplace, exc, checkerVars,
                    results >>

\* the generator is exhausted: check_all writes the file when there is a
\* write_filename and returns, _main goes to the next path
Return ==
    /\ pc = "check_all"
    /\ pos > Len(gen.toks)
    /\ gen.err = ""
    /\ IF write_filename # << >>
       THEN /\ fs' = (write_filename :> SplitLines(writer)) @@ fs
            /\ written' = Append(written,
                                 [ arg |-> argi, path |-> write_filename,
                                   content |-> SplitLines(writer),
                                   consumed |-> pos - 1,
                                   total |-> Len(gen.toks), err |-> gen.err ])
       ELSE UNCHANGED << fs, written >>
    /\ argi' = argi + 1
    /\ pc' = "main"
    /\ UNCHANGED << reportVars, args, implicit, fix, inplace, exc, checkerVars,
                    results >>

\* the for loop of _main is over: the process exits
Exit ==
    /\ pc = "main"
    /\ argi > Len(args)
    /\ pc' = "exit"
    /\ UNCHANGED << reportVars, args, argi, fs, implicit, fix, inplace, exc,
                    checkerVars, historyVars >>

Next == Main \/ NextToken \/ Raise \/ Return \/ Exit

Spec == Init /\ [][Next]_vars

(***************************************************************************)
(* The layout specification: the same program run on files made of blank   *)
(* lines, comment lines, definitions, indented lines, a statement with an  *)
(* inline comment, a statement that spans two rows and a statement in      *)
(* back-ticks.  Every file ends with a newline.                            *)
(***************************************************************************)
LayoutMenu ==
    << << "\n" >>,
       << "#", " ", "c", "\n" >>,
       << "d", "e", "f", " ", "f", "(", ")", ":", "\n" >>,
       << "b", " ", " ", "#", " ", "c", "\n" >>,
       << " ", " ", " ", " ", "b", "\n" >>,
       << "f", "(", "a", " ", ",", "\n" >>,
       << "b", ",", "c", ")", " ", "\n" >>,
       << Backtick, "a", Backtick, "\n" >> >>

\* the command lines followed: check one file, fix one file in place twice
LayoutRuns ==
    { [ args |-> << APath >>, fix |-> 0, inplace |-> 0 ],
      [ args |-> << APath, APath >>, fix |-> 1, inplace |-> 1 ] }

InitLayout ==
    /\ select = ProcessSelect(<< >>)
    /\ ignore = ProcessIgnore(<< >>, << >>, FALSE)
    /\ quiet = 0
    /\ repeat = FALSE
    /\ counters = EmptyMap
    /\ messages = EmptyMap
    /\ file_errors = 0
    /\ out = << >>
    /\ calls = [c \in RepCodes |-> 0]
    /\ \E run \in LayoutRuns :
          /\ args = run.args /\ fix = run.fix /\ inplace = run.inplace
          /\ \E n \in 1..MaxLayoutLines :
                \E picked \in [1..n -> 1..Len(LayoutMenu)] :
                   fs = (APath :> [ i \in 1..n |-> LayoutMenu[picked[i]] ])
    /\ implicit = FALSE
    /\ argi = 1
    /\ pc = "main"
    /\ exc = ""
    /\ filename = << >> /\ lines = << >> /\ write_filename = << >>
    /\ NewChecker
    /\ gen = [ toks |-> << >>, err |-> "", errRow |-> 0 ]
    /\ pos = 1
    /\ results = << >>
    /\ written = << >>

SpecLayout == InitLayout /\ [][Next]_vars

(***************************************************************************)
(* The token specification: the run of _main over files whose lines put    *)
(* brackets, commas and comments at the ends of rows, indent with blanks   *)
(* and tabs, and start with a character the tokenizer does not know; the   *)
(* run is made with the default options or with --ignore=E26.              *)
(***************************************************************************)
TokenMenu ==
    << << "f", "(", "\n" >>,
       << "a", "\n" >>,
       << "a", ",", "\n" >>,
       << ")", "\n" >>,
       << "(", "a", " ", "#", " ", "(", "\n" >>,
       << VTab, "b", "\n" >>,
       << "a", ":", " ", " ", "#", " ", "c", "\n" >>,
       << " ", " ", " ", " ", "b", "\n" >>,
       << "\t", " ", "b", "\n" >>,
       << "a", ":", "\n" >>,
       << "b", ")", "\n" >> >>

InitTokens ==
    /\ select = ProcessSelect(<< >>)
    /\ \E ignoreArg \in { << >>, << "E", "2", "6" >> } :
          ignore = ProcessIgnore(<< >>, ignoreArg, FALSE)
    /\ quiet = 0
    /\ repeat = FALSE
    /\ counters = EmptyMap
    /\ messages = EmptyMap
    /\ file_errors = 0
    /\ out = << >>
    /\ calls = [c \in RepCodes |-> 0]
    /\ \E run \in LayoutRuns :
          /\ args = run.args /\ fix = run.fix /\ inplace = run.inplace
          /\ \E n \in 1..MaxLayoutLines :
                \E picked \in [1..n -> 1..Len(TokenMenu)] :
                   fs = (APath :> [ i \in 1..n |-> TokenMenu[picked[i]] ])
    /\ implicit = FALSE
    /\ argi = 1
    /\ pc = "main"
    /\ exc = ""
    /\ filename = << >> /\ lines = << >> /\ write_filename = << >>
    /\ NewChecker
    /\ gen = [ toks |-> << >>, err |-> "", errRow |-> 0 ]
    /\ pos = 1
    /\ results = << >>
    /\ written = << >>

SpecTokens == InitTokens /\ [][Next]_vars

(***************************************************************************)
(* The continuation specification: the same program run on files whose     *)
(* lines may end with a backslash, which continues the statement on the    *)
(* next line, next to blank lines, comment lines, one-row statements and a *)
(* statement that spans two rows inside brackets.                          *)
(***************************************************************************)
ContinuationMenu ==
    << << "\\", "\n" >>,
       << "\n" >>,
       << "a", " ", "\\", "\n" >>,
       << "b", "\n" >>,
       << "#", " ", "c", "\n" >>,
       << "f", "(", "a", " ", ",", "\n" >>,
       << "b", ",", "c", ")", " ", "\n" >> >>

InitContinuation ==
    /\ select = ProcessSelect(<< >>)
    /\ ignore = ProcessIgnore(<< >>, << >>, FALSE)
    /\ quiet = 0
    /\ repeat = FALSE
    /\ counters = EmptyMap
    /\ messages = EmptyMap
    /\ file_errors = 0
    /\ out = << >>
    /\ calls = [c \in RepCodes |-> 0]
    /\ \E run \in LayoutRuns :
          /\ args = run.args /\ fix = run.fix /\ inplace = run.inplace
          /\ \E n \in 1..MaxLayoutLines :
                \E picked \in [1..n -> 1..Len(ContinuationMenu)] :
                   fs = (APath :> [ i \in 1..n |-> ContinuationMenu[picked[i]] ])
    /\ implicit = FALSE
    /\ argi = 1
    /\ pc = "main"
    /\ exc = ""
    /\ filename = << >> /\ lines = << >> /\ write_filename = << >>
    /\ NewChecker
    /\ gen = [ toks |-> << >>, err |-> "", errRow |-> 0 ]
    /\ pos = 1
    /\ results = << >>
    /\ written = << >>

SpecContinuation == InitContinuation /\ [][Next]_vars

(***************************************************************************)
(* The string specification: build_tokens_line meets a string token and    *)
(* mutes it.  The token texts are the string literals made of a prefix, a  *)
(* single or triple delimiter and an interior of at most MaxInterior       *)
(* characters.                                                             *)
(***************************************************************************)
\* prefix, delimiter (the quote once or three times), interior; the
\* characters of an interior are a letter, a comma and the quote that is
\* not the delimiter
StringTexts ==
    LET InteriorsOf(q) ==
            UNION { [1..n -> { "a", ",", IF q = "'" THEN "\"" ELSE "'" }] :
                    n \in 0..MaxInterior }
    IN  UNION { { p \o Times(q, d) \o i \o Times(q, d) : i \in InteriorsOf(q) } :
                p \in { << >>, << "u" >>, << "r" >>, << "u", "r" >> },
                q \in { "'", "\"" }, d \in { 1, 3 } }

InitMute ==
    /\ select = << >> /\ ignore = << >> /\ quiet = 0 /\ repeat = FALSE
    /\ counters = EmptyMap /\ messages = EmptyMap
    /\ file_errors = 0 /\ out = << >>
    /\ calls = [c \in RepCodes |-> 0]
    /\ args = << APath >> /\ argi = 1 /\ fs = EmptyMap
    /\ implicit = FALSE /\ fix = 0 /\ inplace = 0
    /\ pc = "check_all" /\ exc = ""
    /\ filename = APath /\ lines = << >> /\ write_filename = << >>
    /\ NewChecker
    /\ gen = [ toks |-> << >>, err |-> "", errRow |-> 0 ]
    /\ pos = 1
    /\ results = << >> /\ written = << >>

\* the loop of build_tokens_line meets a string token: the text is kept in
\* muted_strings and its muted form joins the logical line
MuteString ==
    /\ pc = "check_all" /\ muted_strings = << >>
    /\ \E text \in StringTexts :
          /\ tokens' = << Tok("STRING", text, 1, 0, 1, Len(text)) >>
          /\ muted_strings' = Append(muted_strings, text)
          /\ logical_line' = mute_string(text)
    /\ UNCHANGED << reportVars, runVars, historyVars, filename, lines,
                    write_filename, line_number, indent_char, indent_level,
                    previous_indent_level, previous_logical, blank_lines,
                    blank_lines_before_comment, comment, parens,
                    physical_line, fixed_physical_lines, mapping, writer,
                    gen, pos >>

SpecMute == InitMute /\ [][MuteString]_vars

(***************************************************************************)
(* Claims about the reporter.                                              *)
(***************************************************************************)
\* some prefix of the select list matches the code
SelectMatches(c) == \E p \in Range(select) : StartsWith(c, p)

\* some prefix of the ignore list matches the code
IgnoreMatches(c) == \E p \in Range(ignore) : StartsWith(c, p)

\* the per-code counter, 0 when the code has no entry
CountOf(c) == IF c \in DOMAIN counters THEN counters[c] ELSE 0

\* the number of violation lines printed for a code
PrintedOf(c) ==
    Cardinality({ i \in 1..Len(out) :
                    /\ "text" \in DOMAIN out[i]
                    /\ Slice(out[i].text, 0, 4) = c })

\* C1 (as stated): a violation passed to report_error is reported iff some
\* select prefix matches its code, or select is empty and no ignore prefix
\* matches it.
C1_AsStated ==
    \A c \in RepCodes :
        calls[c] > 0 =>
            ((c \in DOMAIN counters) <=>
                (SelectMatches(c) \/ (select = << >> /\ ~IgnoreMatches(c))))

\* C1 (amended): a violation passed to report_error is reported (counted, and
\* printed at its first occurrence when not quiet) iff some select prefix
\* matches its code or no ignore prefix matches it.
C1_Reported ==
    \A c \in RepCodes :
        calls[c] > 0 =>
            /\ (c \in DOMAIN counters) <=> (SelectMatches(c) \/ ~IgnoreMatches(c))
            /\ quiet = 0 =>
                  ((PrintedOf(c) > 0) <=> (SelectMatches(c) \/ ~IgnoreMatches(c)))

\* a code that matches neither list was reported although select is not empty
C1_Witness ==
    \E c \in RepCodes :
        /\ select # << >> /\ ignore # << >>
        /\ ~SelectMatches(c) /\ ~IgnoreMatches(c)
        /\ calls[c] > 0 /\ c \in DOMAIN counters /\ PrintedOf(c) > 0

\* C2: ignore_code(C) is true iff C starts with some ignore prefix and with
\* no select prefix; a code matching both lists is never suppressed.
C2_IgnoreCode ==
    \A c \in RepCodes :
        /\ Truthy(IgnoreCode(c)) <=> (IgnoreMatches(c) /\ ~SelectMatches(c))
        /\ (IgnoreMatches(c) /\ SelectMatches(c)) => IgnoreCode(c) = "False"

\* a code matching both a select and an ignore prefix went through report_error
C2_Witness ==
    \E c \in RepCodes :
        /\ SelectMatches(c) /\ IgnoreMatches(c)
        /\ calls[c] > 0 /\ CountOf(c) = calls[c]

\* C3 (as stated): after any sequence of report_error calls, counters[C] is
\* the number of calls made with code C, suppressed or not.
C3_AsStated == \A c \in RepCodes : CountOf(c) = calls[c]

\* C3 (amended): counters[C] is the number of report_error calls made with
\* code C when C is not suppressed, and C has no counter at all when it is
\* suppressed: a suppressed violation is neither printed nor counted.
C3_Counted ==
    \A c \in RepCodes :
        IF IgnoreMatches(c) /\ ~SelectMatches(c)
        THEN c \notin DOMAIN counters /\ c \notin DOMAIN messages
        ELSE CountOf(c) = calls[c]

\* a suppressed code was passed twice and has no counter, another was counted
C3_Witness ==
    \E c, d \in RepCodes :
        /\ IgnoreMatches(c) /\ ~SelectMatches(c)
        /\ calls[c] = 2 /\ c \notin DOMAIN counters
        /\ calls[d] = 1 /\ CountOf(d) = 1

\* C8: not quiet; with repeat off a violation line is printed for a code at
\* its first non-suppressed occurrence and never again, with repeat on every
\* non-suppressed occurrence is printed.
C8_FirstOccurrence ==
    quiet = 0 =>
        \A c \in RepCodes :
            PrintedOf(c) =
                IF IgnoreMatches(c) /\ ~SelectMatches(c) THEN 0
                ELSE IF repeat THEN calls[c]
                ELSE IF calls[c] > 0 THEN 1 ELSE 0

\* repeat off: a code occurred three times and was printed once
C8_Witness ==
    \E c \in RepCodes :
        /\ quiet = 0 /\ ~repeat
        /\ calls[c] = 3 /\ CountOf(c) = 3 /\ PrintedOf(c) = 1

(***************************************************************************)
(* Claims about the run of _main and the Checker.                          *)
(***************************************************************************)
\* the exceptions generate_tokens raises on its input
TokenSourceErrors == { "TokenError", "IndentationError" }

\* the positions of the write records of the path on turn
WrittenNow == { i \in 1..Len(written) : written[i].arg = argi }

\* C4 (as stated): when the token source raises a syntax error while a file
\* of a batch is checked, only that file is aborted and every later file of
\* the batch is still checked: a run that has ended on such an error has no
\* path left unchecked.
C4_AsStated ==
    (pc = "raised" /\ exc \in TokenSourceErrors) => argi = Len(args)

\* C5 (as stated): the fix pass is idempotent: the second fix pass over a
\* file fixed in place writes what the first pass wrote, and its logical
\* checks return no violation of a rule that has a fix.
C5_AsStated ==
    (Len(written) = 2 /\ written[1].path = written[2].path) =>
        /\ written[2].content = written[1].content
        /\ \A k \in 1..Len(results[2]) : ~HasFix(results[2][k].name)

\* C6 (as stated): checking without fixing, every violation that a
\* logical-line rule returns with an integer offset is reported at a
\* (row, col) whose row is a physical row spanned by the logical line and
\* whose col lies within 0..length of that physical row.
C6_AsStated ==
    (pc = "check_all" /\ fix = 0) =>
        \A k \in 1..Len(results[Len(results)]) :
            LET r == results[Len(results)][k]
            IN  ~r.tuple =>
                   /\ r.row \in r.rows
                   /\ 0 <= r.col
                   /\ r.col <= Len(lines[r.row])

\* the (code, row, col) violations the logical checks returned with an
\* integer offset into the logical text, for the i-th path
TextViolations(i) ==
    { << results[i][k].code, results[i][k].row, results[i][k].col >> :
        k \in { j \in 1..Len(results[i]) : ~results[i][j].tuple } }

\* the indices of a string literal's text that lie between its quotes
InteriorOf(text) ==
    LET open == CHOOSE i \in 1..Len(text) :
                    text[i] \in Quotes /\ \A j \in 1..(i - 1) : text[j] \notin Quotes
        width == IF Len(text) >= open + 5 /\ text[open + 1] = text[open]
                    /\ text[open + 2] = text[open]
                 THEN 3 ELSE 1
    IN  (open + width)..(Len(text) - width)

\* two token streams that differ only inside their string literals
SameButInteriors(ga, gb) ==
    /\ ga.err = gb.err
    /\ Len(ga.toks) = Len(gb.toks)
    /\ \A k \in 1..Len(ga.toks) :
          LET ta == ga.toks[k]
              tb == gb.toks[k]
          IN  /\ [ta EXCEPT !.text = << >>] = [tb EXCEPT !.text = << >>]
              /\ Len(ta.text) = Len(tb.text)
              /\ \A i \in 1..Len(ta.text) :
                    ta.text[i] # tb.text[i] =>
                        ta.type = "STRING" /\ i \in InteriorOf(ta.text)
                                           /\ i \in InteriorOf(tb.text)

\* the two files of the run differ only inside their string literals
OnlyInteriorsDiffer ==
    /\ args = << APath, BPath >>
    /\ SameButInteriors(GenerateTokens(fs[APath], implicit),
                        GenerateTokens(fs[BPath], implicit))

\* C7: two files that differ only in the characters inside their string
\* literals (same length, same quotes and prefix) get the same set of
\* (code, row, col) violations from the logical-line rules that match on
\* the logical text.
C7_StringInterior ==
    (pc = "exit" /\ OnlyInteriorsDiffer) =>
        TextViolations(1) = TextViolations(2)

\* the second file holds ',:' in a string where the first holds 'ab', and
\* the rule for a missing space after ',;:' fired outside the string
C7_Witness ==
    /\ pc = "exit" /\ OnlyInteriorsDiffer /\ fix = 0
    /\ fs[APath] # fs[BPath]
    /\ \E k \in 1..Len(results[2]) :
          /\ results[2][k].code = << "E", "2", "3", "1" >>
          /\ << results[2][k].code, results[2][k].row, results[2][k].col >>
                \in TextViolations(1)

\* C9 (as stated): when the token stream of a file ends while the token
\* buffer holds statement tokens that no statement-end token has closed,
\* check_all dispatches them as a final logical line before it returns: on
\* return the buffer holds no statement token.
C9_AsStated ==
    (pc = "main" /\ argi > 1) =>
        \A k \in 1..Len(tokens) :
            tokens[k].type \in SKIP_TOKENS \cup { "COMMENT", "ENDMARKER" }

\* C10: with fixing enabled the rewritten file is written only after every
\* token of the file went through the loop; while the loop runs, and when
\* the token source or the loop body raises, the target path is neither
\* created nor changed.
C10_WriteAfterLoop ==
    /\ \A i \in 1..Len(written) :
          written[i].consumed = written[i].total /\ written[i].err = ""
    /\ (pc \in { "check_all", "raised" } /\ fix # 0) =>
          /\ WrittenNow = {}
          /\ inplace # 0 => fs[write_filename] = lines
          /\ inplace = 0 => write_filename \notin DOMAIN fs

\* a fix pass raised with rewritten text in its buffer, the target untouched
C10_Witness ==
    /\ pc = "raised" /\ exc \in TokenSourceErrors
    /\ fix # 0 /\ inplace # 0
    /\ writer # << >>
    /\ fs[write_filename] = lines
    /\ written = << >>


(***************************************************************************)
(* Claims about the layout of the files: blank lines, comments, rows.      *)
(***************************************************************************)
W391 == << "W", "3", "9", "1" >>

\* the first pass over the file is over and has written the file
FirstPassFixed == pc = "main" /\ argi = 2 /\ fix # 0 /\ Len(written) = 1

\* C11 as stated: with fixing enabled, a file whose only violation is the
\* W391 of a trailing blank line is written back as its lines without the
\* last one, every other line unchanged and in order.
C11_AsStated ==
    (FirstPassFixed /\ DOMAIN counters = { W391 }) =>
        fs[APath] = SubSeq(lines, 1, Len(lines) - 1)

E302 == << "E", "3", "0", "2" >>

\* a step of the token loop of check_all, for the token gen.toks[pos]
TokenStep == pc = "check_all" /\ pos' = pos + 1

\* the violations of the logical checks that the step records
NewResults ==
    SubSeq(results'[Len(results)], Len(results[Len(results)]) + 1,
           Len(results'[Len(results)]))

\* what the step appends to the writer
Emitted == SubSeq(writer', Len(writer) + 1, Len(writer'))

\* the writer holds nothing, or ends with a line that is not blank
AfterText ==
    \/ writer = << >>
    \/ /\ Len(writer) >= 2
       /\ writer[Len(writer)] = "\n"
       /\ writer[Len(writer) - 1] # "\n"

\* C12: with fixing enabled, a logical line flagged E302 is written after
\* exactly 2 blank lines, whatever number of blank lines the input has
\* before it.
C12_TwoBlankLines ==
    [][(/\ TokenStep /\ fix # 0 /\ exc' = ""
        /\ \E k \in 1..Len(NewResults) : NewResults[k].code = E302)
       => /\ SubSeq(writer', 1, Len(writer)) = writer
          /\ AfterText
          /\ Len(Emitted) >= 3
          /\ Emitted[1] = "\n" /\ Emitted[2] = "\n" /\ Emitted[3] # "\n"]_vars

\* a definition that one blank line precedes in the file has been flagged
\* E302 and written after two blank lines
C12_Witness ==
    /\ pc = "check_all" /\ fix # 0 /\ exc = ""
    /\ Len(lines) = 3 /\ lines[2] = << "\n" >> /\ lines[3] = LayoutMenu[3]
    /\ \E k \in 1..Len(results[Len(results)]) :
          results[Len(results)][k].code = E302
    /\ EndsWith(writer, << "c", "\n", "\n", "\n" >> \o LayoutMenu[3])

\* C13 as stated: the logical line handed to the logical checks, and the
\* previous logical line, hold no comment text (in the files followed a
\* "#" only occurs in comments).
C13_AsStated ==
    /\ \A i \in 1..Len(logical_line) : logical_line[i] # "#"
    /\ \A i \in 1..Len(previous_logical) : previous_logical[i] # "#"

(***************************************************************************)
(* Claims about mute_string.                                               *)
(***************************************************************************)
\* the length of the prefix of a string literal: its leading letters
RECURSIVE LeadingLetters(_)
LeadingLetters(text) ==
    IF text # << >> /\ text[1] \in { "u", "r" }
    THEN 1 + LeadingLetters(Tail(text))
    ELSE 0

\* the length of the delimiter that follows a prefix of p characters
DelimiterLen(text, p) ==
    IF /\ Len(text) >= p + 6
       /\ text[p + 2] = text[p + 1] /\ text[p + 3] = text[p + 1]
    THEN 3 ELSE 1

MutedAsClaimed(text, muted) ==
    LET h == LeadingLetters(text) + DelimiterLen(text, LeadingLetters(text))
        t == Len(text) - DelimiterLen(text, LeadingLetters(text))
    IN  /\ Len(muted) = Len(text)
        /\ \A i \in 1..Len(text) :
              muted[i] = IF i > h /\ i <= t THEN "x" ELSE text[i]

\* C14: the muted form of a string token has the length of the token, its
\* prefix and its opening and closing delimiters unchanged, and an "x" at
\* every position of the interior.
C14_MuteString ==
    muted_strings # << >> => MutedAsClaimed(muted_strings[1], logical_line)

C14_Witness ==
    /\ muted_strings = << << "u", "r", "'", "'", "'", "a", "\"", "'", "'", "'" >> >>
    /\ logical_line = << "u", "r", "'", "'", "'", "x", "x", "'", "'", "'" >>

(***************************************************************************)
(* Claims about the rules for deprecated syntax.                           *)
(***************************************************************************)
\* C15 as stated: each rule for deprecated syntax offers a fix operation,
\* so whenever one of them has flagged a logical line, check_logical finds
\* a fix on the rule.  (Of the four rules the model follows has_key,
\* not_equal and backticks.)
C15_AsStated ==
    \A p \in 1..Len(results) : \A k \in 1..Len(results[p]) :
        results[p][k].name \in { "python_3000_has_key", "python_3000_not_equal",
                                "python_3000_backticks" }
            => HasFix(results[p][k].name)

(***************************************************************************)
(* Claims about the token loop of check_all.                               *)
(***************************************************************************)
\* the token the step handles
ThisToken == gen.toks[pos]

\* the step has run check_logical to its end: the position map was built
\* anew, from tokens of rows no earlier line has
Dispatched == mapping' # mapping

\* C16: a token step dispatches a logical line exactly when its token is a
\* NEWLINE met at bracket depth 0, never at another depth; right after the
\* dispatch blank_lines and blank_lines_before_comment are 0 and the token
\* buffer is empty.
C16_Dispatch ==
    [][(TokenStep /\ exc' = "")
       => /\ Dispatched <=> (ThisToken.type = "NEWLINE" /\ parens' = 0)
          /\ Dispatched => /\ blank_lines' = 0
                           /\ blank_lines_before_comment' = 0
                           /\ tokens' = << >>
                           /\ previous_logical' = logical_line']_vars

\* the second row of a statement in brackets has been dispatched, and a
\* NEWLINE met below depth 0 has not
C16_Witness ==
    /\ pc = "check_all" /\ exc = "" /\ pos = Len(gen.toks) + 1
    /\ lines = << LayoutMenu[6], LayoutMenu[7], LayoutMenu[7] >>
    /\ gen.toks[pos - 1].type = "NEWLINE" /\ parens = -1
    /\ tokens # << >>
    /\ mapping # << >> /\ mapping[Len(mapping)].token.srow = 2
    /\ blank_lines = 0 /\ blank_lines_before_comment = 0

\* what a step on an NL token at bracket depth 0 does to blank_lines
CountedAtDepthZero ==
    blank_lines' = blank_lines + (IF tokens = << >> THEN 1 ELSE 0)

\* C17 as stated: an NL token at bracket depth 0 adds exactly 1 to
\* blank_lines if it is the only token buffered for its line and leaves
\* blank_lines unchanged otherwise; an NL token at another depth changes
\* neither blank_lines nor the token buffer.
C17_AsStated ==
    [][(TokenStep /\ exc' = "" /\ ThisToken.type = "NL")
       => IF parens' = 0 THEN CountedAtDepthZero
          ELSE blank_lines' = blank_lines /\ tokens' = tokens]_vars

\* C17 (amended): as stated at depth 0; at another depth blank_lines is
\* unchanged and the token buffer is not emptied: it keeps what it held
\* and holds the NL token too.
C17_NonLogicalNewline ==
    [][(TokenStep /\ exc' = "" /\ ThisToken.type = "NL")
       => IF parens' = 0 THEN CountedAtDepthZero
          ELSE /\ blank_lines' = blank_lines
               /\ tokens' = Append(tokens, ThisToken)]_vars

\* a blank line was counted, and the NL that follows "f(a ," inside the
\* bracket has left the count and the buffered tokens alone
C17_Witness ==
    /\ pc = "check_all" /\ exc = "" /\ pos > 1
    /\ Len(lines) >= 2 /\ lines[1] = << "\n" >> /\ lines[2] = LayoutMenu[6]
    /\ gen.toks[pos - 1].type = "NL" /\ parens = 1
    /\ blank_lines = 1
    /\ Len(tokens) = 5 /\ tokens[5] = gen.toks[pos - 1]

\* the token of the step is a comment with nothing but blanks before it
StandaloneComment ==
    /\ ThisToken.type = "COMMENT"
    /\ Strip(Slice(lines[ThisToken.srow], 0, ThisToken.scol)) = << >>

\* C18 as stated: a standalone comment leaves blank_lines at 0 and
\* blank_lines_before_comment at least at the blank_lines held before it,
\* and under every configuration the value is kept until the next logical
\* line is dispatched: no token step before the dispatch lowers it.
C18_AsStated ==
    [][(TokenStep /\ exc' = "" /\ ~Dispatched)
       => /\ blank_lines_before_comment' >= blank_lines_before_comment
          /\ StandaloneComment
                => /\ blank_lines' = 0
                   /\ blank_lines_before_comment' >= blank_lines]_vars

(***************************************************************************)
(* Claims about the fixes of the logical checks.                           *)
(***************************************************************************)
E231 == << "E", "2", "3", "1" >>

\* the character at 0-based column col of the text is one that
\* missing_whitespace looks for
MarkAt(text, col) ==
    col + 1 \in 1..Len(text) /\ text[col + 1] \in { ",", ";", ":" }

\* the position reported is that of the character flagged: in the file as
\* read, or, for a line of one row, in the logical text as the fixes left
\* it (which starts at the column of its first token)
ResolvedInText(r) ==
    \/ MarkAt(lines[r.row], r.col)
    \/ /\ Cardinality(r.rows) = 1
       /\ MarkAt(logical_line', r.col - mapping'[1].token.scol)

\* C19 as stated: with fix on, a violation a rule finds after an earlier
\* fix has changed the logical text is located through the changed text,
\* never through the positions the tokens had before the fix: the position
\* reported for a missing blank after "," ";" or ":" holds that character.
C19_AsStated ==
    [][(TokenStep /\ fix # 0 /\ exc' = "")
       => \A k \in 1..Len(NewResults) :
             NewResults[k].code = E231 => ResolvedInText(NewResults[k])]_vars

\* the rows of the logical line the step has dispatched
FirstRow == mapping'[1].token.srow

LastRow == mapping'[Len(mapping')].token.erow

\* C20: with fix on, what is written for a logical line of more than one
\* row is, after the blank lines due before it, exactly its physical rows
\* from the first to the last, each as the physical fixes left it (in the
\* files followed: without its trailing blanks) and with its line break;
\* the fixes of the logical checks, which change logical_line, change
\* nothing of it.
C20_PhysicalRows ==
    [][(TokenStep /\ fix # 0 /\ exc' = "" /\ Dispatched /\ LastRow > FirstRow)
       => /\ SubSeq(writer', 1, Len(writer)) = writer
          /\ \E n \in 0..Len(Emitted) :
                Emitted = Newlines(n)
                    \o Concat(SubSeq(fixed_physical_lines', FirstRow, LastRow))
          /\ \A i \in FirstRow..LastRow :
                fixed_physical_lines'[i] = RStrip(lines[i]) \o << "\n" >>]_vars

\* "f(a ," and "b,c) " were written with the blank before the comma, which
\* extraneous_whitespace has removed from the logical line, and without the
\* trailing blank of the second row
C20_Witness ==
    /\ pc = "check_all" /\ fix # 0 /\ exc = ""
    /\ lines = << LayoutMenu[6], LayoutMenu[7] >>
    /\ writer = << "f", "(", "a", " ", ",", "\n", "b", ",", "c", ")", "\n" >>
    /\ logical_line = << "f", "(", "a", ",", " ", "b", ",", " ", "c", ")" >>

(***************************************************************************)
(* Claims about build_tokens_line.                                         *)
(***************************************************************************)
\* the text the logical line holds between the kept tokens i and i + 1
GapText(i) ==
    Slice(logical_line', mapping'[i].offset + Len(mapping'[i].token.text),
          mapping'[i + 1].offset)

\* what the claim puts between a kept token and the next one
GapClaimed(prev, token) ==
    IF prev.erow # token.srow
    THEN IF prev.text[Len(prev.text)] = "," THEN << " " >>
         ELSE IF \/ prev.text[Len(prev.text)] \in { "(", "[", "{" }
                 \/ token.text \in { << ")" >>, << "]" >>, << "}" >> }
         THEN << >>
         ELSE << " " >>
    ELSE Slice(lines[token.srow], prev.ecol, token.scol)

\* C21: in the logical line built at a dispatch, two consecutive kept
\* tokens on different rows are separated by exactly one space, by nothing
\* when the first ends with an opening bracket or the second is a closing
\* bracket, and by the space all the same when the first ends with a
\* comma; on the same row they are separated by the text the file has
\* between them.  (Read in the runs without fix, where no fix rewrites the
\* logical line after it is built.)
C21_Fill ==
    [][(TokenStep /\ fix = 0 /\ exc' = "" /\ Dispatched)
       => \A i \in 1..(Len(mapping') - 1) :
             GapText(i) = GapClaimed(mapping'[i].token, mapping'[i + 1].token)]_vars

\* "f(", "a," and ")" were built into "f(a, )": nothing after the opening
\* bracket, a space after the comma although a closing bracket follows
C21_Witness ==
    /\ pc = "check_all" /\ fix = 0 /\ exc = ""
    /\ lines = << TokenMenu[1], TokenMenu[3], TokenMenu[4] >>
    /\ logical_line = << "f", "(", "a", ",", " ", ")" >>
    /\ Len(mapping) = 5

\* C22 as stated: whatever tokens build_tokens_line is handed, the logical
\* text it builds has no leading whitespace, so its assertion never fails
\* and no run ends with AssertionError.
C22_AsStated == exc # "AssertionError"

(***************************************************************************)
(* Claims about find_checks.                                               *)
(***************************************************************************)
\* the codes of the violations a check returns
EmittedCodes(name) ==
    IF name = "whitespace_before_inline_comment"
    THEN { << "E", "2", "6", "1" >>, << "E", "2", "6", "2" >> }
    ELSE { CodesOf(name)[i] : i \in 1..Len(CodesOf(name)) }

\* C23 as stated: a rule all of whose codes are suppressed is not in the
\* dispatch list and is never invoked, so every rule that has returned a
\* violation has a code that is not suppressed.
C23_AsStated ==
    \A p \in 1..Len(results) : \A k \in 1..Len(results[p]) :
        \E code \in EmittedCodes(results[p][k].name) : ~Truthy(IgnoreCode(code))

(***************************************************************************)
(* Claims about indentation.                                               *)
(***************************************************************************)
\* a statement without its trailing inline comment (in the files followed
\* a "#" only occurs in comments)
RECURSIVE WithoutComment(_)
WithoutComment(text) ==
    IF text = << >> \/ text[1] = "#" THEN << >>
    ELSE << text[1] >> \o WithoutComment(Tail(text))

\* the codes the indentation rule has returned in the step
IndentationCodes ==
    { NewResults[k].code : k \in { j \in 1..Len(NewResults) :
                                       NewResults[j].name = "indentation" } }

\* what the claim has the rule report for the line dispatched, given the
\* statement before it
IndentationClaimed(previous) ==
    IF indent_char' = " " /\ indent_level' % 4 # 0
    THEN { << "E", "1", "1", "1" >> }
    ELSE IF /\ EndsWith(RStrip(WithoutComment(previous)), << ":" >>)
            /\ indent_level' <= previous_indent_level'
    THEN { << "E", "1", "1", "2" >> }
    ELSE IF /\ indent_level' > previous_indent_level'
            /\ ~EndsWith(RStrip(WithoutComment(previous)), << ":" >>)
    THEN { << "E", "1", "1", "3" >> }
    ELSE { }

\* C24 as stated: the indentation rule reports E111 iff the indent
\* character is a space and indent_level is not a multiple of 4, otherwise
\* E112 iff the previous statement ends with a colon and indent_level is
\* not above previous_indent_level, otherwise E113 iff indent_level is above
\* it and the previous statement does not end with a colon; an inline
\* comment after the colon does not count.
C24_AsStated ==
    [][(TokenStep /\ exc' = "" /\ Dispatched)
       => IndentationCodes = IndentationClaimed(previous_logical)]_vars

\* the column the claim has the leading whitespace of a line reach from
\* character k on: a space advances by 1, a tab to the next multiple of 8
RECURSIVE ColumnReached(_, _, _)
ColumnReached(line, k, column) ==
    IF k > Len(line) THEN column
    ELSE IF line[k] = " " THEN ColumnReached(line, k + 1, column + 1)
    ELSE IF line[k] = "\t"
    THEN ColumnReached(line, k + 1, ((column \div 8) + 1) * 8)
    ELSE column

\* C25 as stated: the indent_level of the logical line dispatched is the
\* column reached by scanning the leading whitespace of its first physical
\* line, a space counting 1 and a tab reaching the next multiple of 8.
C25_AsStated ==
    [][(TokenStep /\ exc' = "" /\ Dispatched)
       => indent_level' = ColumnReached(lines[FirstRow], 1, 0)]_vars

\* the first character of the first of the lines 1..n that begins with a
\* space or a tab, "None" when there is none
RECURSIVE FirstIndentChar(_, _, _)
FirstIndentChar(text, k, n) ==
    IF k > n \/ k > Len(text) THEN "None"
    ELSE IF text[k] # << >> /\ text[k][1] \in { " ", "\t" } THEN text[k][1]
    ELSE FirstIndentChar(text, k + 1, n)

\* C26: while a file is checked indent_char is unset until the first
\* physical line read that begins with a space or a tab, is the first
\* character of that line from then on, and no step changes it once it is
\* set, whatever is read, reported or fixed afterwards; the step that
\* starts the next file unsets it.
C26_IndentChar ==
    [][/\ (pc = "main" /\ pc' = "check_all") => indent_char' = "None"
       /\ pc = "check_all"
            => /\ indent_char # "None" => indent_char' = indent_char
               /\ indent_char' = FirstIndentChar(lines, 1, line_number')]_vars

\* "    b" and then "\t b" have been read with fix on, and the tab of the
\* second has been fixed: indent_char is still the space of the first
C26_Witness ==
    /\ pc = "check_all" /\ fix # 0 /\ exc = ""
    /\ Len(lines) = 3 /\ lines[2] = TokenMenu[8] /\ lines[3] = TokenMenu[9]
    /\ line_number >= 3
    /\ Len(fixed_physical_lines) = 3 /\ fixed_physical_lines[3] # lines[3]
    /\ indent_char = " "

(***************************************************************************)
(* Claims about what the fix option changes.                               *)
(***************************************************************************)
\* C27 as stated: the violations check_all reports for a file are the same
\* with and without the fix option.  Without fix every E231 reported lies
\* on a "," ";" or ":" of the file read; the same file read with fix then
\* has to give the same positions, so the property cannot depend on fix.
C27_AsStated ==
    [][(TokenStep /\ exc' = "")
       => \A k \in 1..Len(NewResults) :
             NewResults[k].code = E231
                => MarkAt(lines[NewResults[k].row], NewResults[k].col)]_vars

\* the characters of a text that are not whitespace, in order
NonWhitespace(text) ==
    LET Inked(c) == c \notin StripChars IN SelectSeq(text, Inked)

\* C28 as stated: the file a fix pass writes has the non-whitespace
\* characters of the file it read, in the same order: no statement,
\* comment or string content is dropped, duplicated or altered.  (No rule
\* the model follows reports W602.)
C28_AsStated ==
    FirstPassFixed =>
        NonWhitespace(Concat(written[1].content)) = NonWhitespace(Concat(lines))

(***************************************************************************)
(* Claims about what check_logical may rely on.                            *)
(***************************************************************************)
\* the tokens of a buffer that the position map takes: all but SKIP_TOKENS
KeptTokens(toks) ==
    LET Kept(t) == t.type \notin SKIP_TOKENS IN SelectSeq(toks, Kept)

\* the step invokes check_logical: its token is a NEWLINE outside brackets
Invoked == TokenStep /\ ThisToken.type = "NEWLINE" /\ parens' = 0

\* C29 as stated: whenever check_logical is invoked, the token buffer holds
\* a token that is not a layout token, so the position map it builds is
\* not empty, its first entry has offset 0, and check_logical does not end
\* with an IndexError.
C29_AsStated ==
    [][Invoked => /\ KeptTokens(Append(tokens, ThisToken)) # << >>
                  /\ exc' # "IndexError"
                  /\ mapping' # << >>
                  /\ mapping'[1].offset = 0]_vars

\* the lines of the file that readline has returned so far
LinesRead == Min(line_number, Len(lines))

\* fixed_physical_lines has one entry for each line read, in file order:
\* entry i is line i as the physical fixes leave it, which is line i itself
\* without the fix option and differs from it in whitespace only with it
OneEntryPerLine ==
    /\ Len(fixed_physical_lines) = LinesRead
    /\ \A i \in 1..Len(fixed_physical_lines) :
          /\ NonWhitespace(fixed_physical_lines[i]) = NonWhitespace(lines[i])
          /\ fix = 0 => fixed_physical_lines[i] = lines[i]

\* C30: in every state of check_all fixed_physical_lines holds exactly one
\* entry for each physical line read so far, in file order, and when a
\* logical line is dispatched every row of its tokens has an entry, so the
\* rewrite of a logical line of several rows indexes existing entries only.
C30_FixedPhysicalLines ==
    [][/\ pc' = "check_all" => OneEntryPerLine'
       /\ (Invoked /\ mapping' # << >>)
             => /\ OneEntryPerLine'
                /\ \A i \in 1..Len(mapping') :
                      /\ mapping'[i].token.srow <= Len(fixed_physical_lines')
                      /\ mapping'[i].token.erow <= Len(fixed_physical_lines')]_vars

\* a statement of two rows inside brackets has been dispatched with the fix
\* option, and its rows were written from the entries of
\* fixed_physical_lines, the second without its trailing blank
C30_Witness ==
    /\ pc = "check_all" /\ fix # 0 /\ exc = ""
    /\ lines = << ContinuationMenu[6], ContinuationMenu[7] >>
    /\ mapping # << >>
    /\ mapping[1].token.srow = 1 /\ mapping[Len(mapping)].token.erow = 2
    /\ Len(fixed_physical_lines) = 2
    /\ fixed_physical_lines[2] # lines[2]
    /\ writer = fixed_physical_lines[1] \o fixed_physical_lines[2]
====
